---------------------------- MODULE Spec2Model ----------------------------
(***************************************************************************)
(* Model of the studio-sync backend's job cache and engine orchestration:  *)
(* the per-mode engine registry (api.py get_splitter_engine), the          *)
(* ProgressStreamer / generate_sse_stream event channel, the three request *)
(* paths (upload streaming, external-download streaming, non-streaming)    *)
(* and SplitterEngine.check_cache / split_audio with the cache directory   *)
(* tree they read and write.                                               *)
(*                                                                         *)
(* File names are sequences of the tokens that "_" separates, so that the  *)
(* glob pattern of check_cache and the split("_") of the external-download *)
(* flow are computed as the code computes them.                            *)
(***************************************************************************)
EXTENDS Integers, Sequences, FiniteSets, TLC

(***************************************************************************)
(* Program constants                                                       *)
(***************************************************************************)
Modes == {"fast", "detailed"}

ModelName(m) == IF m = "fast" THEN "htdemucs" ELSE "htdemucs_6s"

MODEL_STEMS(model) ==
    IF model = "htdemucs"
    THEN <<"drums", "bass", "other", "vocals">>
    ELSE <<"drums", "bass", "vocals", "guitar", "piano", "other">>

\* "htdemucs_6s" is two "_"-separated tokens in a file name
ModelTokens(model) ==
    IF model = "htdemucs" THEN <<"htdemucs">> ELSE <<"htdemucs", "6s">>

SampleRate == 44100

(***************************************************************************)
(* Threads and tasks                                                       *)
(***************************************************************************)
Jobs == {"j1", "j2"}
TestCallers == {"t1", "t2"}
Preload == "preload"
Callers == Jobs \cup TestCallers \cup {Preload}

NoEngine == [id |-> 0, mode |-> "none", mock |-> FALSE]

\* no array
NoWave == [ndim |-> 0, data |-> <<>>]

\* no request to a status endpoint has been made
NoStatusReq ==
    [state |-> "none", op |-> "", ready |-> [m \in Modes |-> FALSE],
     loaded |-> [m \in Modes |-> FALSE]]

VARIABLES
    engines,        \* _splitter_engines: a dict, mode -> engine handle
    locks,          \* _engine_locks: mode -> holder, or "free"
    model_ready,    \* _model_ready: mode -> BOOLEAN
    constructed,    \* mode -> number of SplitterEngine(...) constructor runs
    gpc,            \* caller -> position inside get_splitter_engine
    gmode,          \* caller -> the mode argument
    gnew,           \* caller -> the engine its constructor call produced
    gret,           \* caller -> the value get_splitter_engine returned
    ppc,            \* position of the preload_models thread
    uploads,        \* UPLOAD_DIR: a dict, file name -> content hash
    cacheDirs,      \* OUTPUT_DIR: the <<hash, mode>> directories that exist
    cacheFiles,     \* OUTPUT_DIR: the stem files, [hash, mode, name]
    loop,           \* the task running on the event loop, or "free"
    pc,             \* job -> position of its handler / worker
    req,            \* job -> the request: kind, mode, content hash, input name
    res,            \* job -> the dict split_audio returned
    idx,            \* job -> index of the stem loop of split_audio
    queue,          \* job -> ProgressStreamer.queue
    done,           \* job -> ProgressStreamer.done
    pushed,         \* job -> every event put into the queue, in order
    cpc,            \* job -> position of generate_sse_stream
    emitted,        \* job -> what generate_sse_stream has yielded, in order
    response,       \* job -> the HTTP response of the non-streaming endpoint
    outdir,         \* job -> the content hash in split_audio's output_dir
    lastYield,      \* job -> what generate_sse_stream yielded last: an event of the
                    \*        poll loop, a keepalive, an event of the drain loop
    prior,          \* job -> the jobs that had finished when it was admitted
    deviceCache,    \* job -> its inference allocations sit in the CUDA cache
                    \*        (the engine's device is a GPU)
    unreadable,     \* OUTPUT_DIR: the stem files that do not decode
    disk,           \* path -> the bytes of an input file
    digests,        \* the calls of compute_file_hash made so far: path, bytes,
                    \*        chunk_size and the value returned
    statusReq,      \* a request to a status endpoint and its answer
    dirOld,         \* OUTPUT_DIR: the content-hash directories whose st_mtime is
                    \*        more than max_age_hours back
    fileOld,        \* OUTPUT_DIR: the stem files written more than max_age_hours ago
    waveform,       \* the array librosa.load returned
    stereo          \* what _enforce_stereo returned for it

regVars == <<engines, locks, model_ready, constructed>>
ageVars == <<dirOld, fileOld>>
dspVars == <<waveform, stereo>>
auxVars == <<disk, digests, statusReq, ageVars, dspVars>>
callVars == <<gpc, gmode, gnew, gret>>
fsVars == <<uploads, cacheDirs, cacheFiles>>
streamVars == <<queue, done, pushed>>
consumerVars == <<cpc, emitted, lastYield>>
jobVars == <<uploads, cacheDirs, cacheFiles, loop, pc, req, res, idx,
             queue, done, pushed, cpc, emitted, response, outdir, lastYield, prior, deviceCache, unreadable, auxVars>>
vars == <<engines, locks, model_ready, constructed, gpc, gmode, gnew, gret, ppc,
          uploads, cacheDirs, cacheFiles, loop, pc, req, res, idx,
          queue, done, pushed, cpc, emitted, response, outdir, lastYield, prior, deviceCache, unreadable, auxVars>>

(***************************************************************************)
(* get_splitter_engine(mode), one step per shared-state access             *)
(***************************************************************************)
Present(m) == m \in DOMAIN engines

\* a caller enters get_splitter_engine(m)
Enter(c, m) ==
    /\ gpc' = [gpc EXCEPT ![c] = "check1"]
    /\ gmode' = [gmode EXCEPT ![c] = m]
    /\ gnew' = [gnew EXCEPT ![c] = NoEngine]
    /\ gret' = [gret EXCEPT ![c] = NoEngine]

\* if mode not in _splitter_engines:            (unlocked first check)
G_Check1(c) ==
    /\ gpc[c] = "check1"
    /\ gpc' = [gpc EXCEPT ![c] = IF Present(gmode[c]) THEN "ret" ELSE "acquire"]
    /\ UNCHANGED <<regVars, gmode, gnew, gret, ppc, jobVars>>

\* with _engine_locks[mode]:                     (blocks while held)
G_Acquire(c) ==
    /\ gpc[c] = "acquire"
    /\ locks[gmode[c]] = "free"
    /\ locks' = [locks EXCEPT ![gmode[c]] = c]
    /\ gpc' = [gpc EXCEPT ![c] = "check2"]
    /\ UNCHANGED <<engines, model_ready, constructed, gmode, gnew, gret, ppc, jobVars>>

G_Check2_NoRecheck(c) ==
    /\ gpc[c] = "check2"
    /\ gpc' = [gpc EXCEPT ![c] = "construct"]
    /\ UNCHANGED <<regVars, gmode, gnew, gret, ppc, jobVars>>

\* if mode not in _splitter_engines:            (second check, lock held)
G_Check2(c) ==
    /\ gpc[c] = "check2"
    /\ gpc' = [gpc EXCEPT ![c] = IF Present(gmode[c]) THEN "release" ELSE "construct"]
    /\ UNCHANGED <<regVars, gmode, gnew, gret, ppc, jobVars>>

\* a construction that sets the readiness flag before the engine is in the map
G_Construct_ReadyFirst(c) ==
    /\ gpc[c] = "construct"
    /\ \E mock \in BOOLEAN :
         /\ constructed' = [constructed EXCEPT ![gmode[c]] = @ + 1]
         /\ gnew' = [gnew EXCEPT ![c] =
                       [id |-> constructed[gmode[c]] + 1, mode |-> gmode[c], mock |-> mock]]
    /\ model_ready' = [model_ready EXCEPT ![gmode[c]] = TRUE]
    /\ gpc' = [gpc EXCEPT ![c] = "publish"]
    /\ UNCHANGED <<engines, locks, gmode, gret, ppc, jobVars>>

\* SplitterEngine(model_name=..., mock_mode=False): the constructor never
\* raises; when Demucs is missing or the model fails to load it falls back
\* to mock mode (audio_splitter.py __init__ / _initialize_model)
G_Construct(c) ==
    /\ gpc[c] = "construct"
    /\ \E mock \in BOOLEAN :
         /\ constructed' = [constructed EXCEPT ![gmode[c]] = @ + 1]
         /\ gnew' = [gnew EXCEPT ![c] =
                       [id |-> constructed[gmode[c]] + 1, mode |-> gmode[c], mock |-> mock]]
    /\ gpc' = [gpc EXCEPT ![c] = "publish"]
    /\ UNCHANGED <<engines, locks, model_ready, gmode, gret, ppc, jobVars>>

\* _splitter_engines[mode] = <the new engine>
G_Publish(c) ==
    /\ gpc[c] = "publish"
    /\ engines' = [m \in DOMAIN engines \cup {gmode[c]} |->
                     IF m = gmode[c] THEN gnew[c] ELSE engines[m]]
    /\ gpc' = [gpc EXCEPT ![c] = "setready"]
    /\ UNCHANGED <<locks, model_ready, constructed, gmode, gnew, gret, ppc, jobVars>>

\* _model_ready[mode].set()
G_SetReady(c) ==
    /\ gpc[c] = "setready"
    /\ model_ready' = [model_ready EXCEPT ![gmode[c]] = TRUE]
    /\ gpc' = [gpc EXCEPT ![c] = "release"]
    /\ UNCHANGED <<engines, locks, constructed, gmode, gnew, gret, ppc, jobVars>>

\* leaving the with block
G_Release(c) ==
    /\ gpc[c] = "release"
    /\ locks' = [locks EXCEPT ![gmode[c]] = "free"]
    /\ gpc' = [gpc EXCEPT ![c] = "ret"]
    /\ UNCHANGED <<engines, model_ready, constructed, gmode, gnew, gret, ppc, jobVars>>

\* a get that hands each caller a handle of its own
G_Return_FreshHandle(c) ==
    /\ gpc[c] = "ret"
    /\ gret' = [gret EXCEPT ![c] = [engines[gmode[c]] EXCEPT !.id = @ + 1]]
    /\ gpc' = [gpc EXCEPT ![c] = "done"]
    /\ UNCHANGED <<regVars, gmode, gnew, ppc, jobVars>>

\* return _splitter_engines[mode]
G_Return(c) ==
    /\ gpc[c] = "ret"
    /\ gret' = [gret EXCEPT ![c] = engines[gmode[c]]]
    /\ gpc' = [gpc EXCEPT ![c] = "done"]
    /\ UNCHANGED <<regVars, gmode, gnew, ppc, jobVars>>

(***************************************************************************)
(* lifespan: the preload_models thread                                     *)
(***************************************************************************)
P_CallDetailed ==
    /\ ppc = "start"
    /\ Enter(Preload, "detailed")
    /\ ppc' = "detailed"
    /\ UNCHANGED <<regVars, jobVars>>

P_CallFast ==
    /\ ppc = "detailed"
    /\ gpc[Preload] = "done"
    /\ Enter(Preload, "fast")
    /\ ppc' = "fast"
    /\ UNCHANGED <<regVars, jobVars>>

P_Finish ==
    /\ ppc = "fast"
    /\ gpc[Preload] = "done"
    /\ gpc' = [gpc EXCEPT ![Preload] = "idle"]
    /\ ppc' = "done"
    /\ UNCHANGED <<regVars, gmode, gnew, gret, jobVars>>

(***************************************************************************)
(* A thread that calls get_splitter_engine(mode) directly                  *)
(***************************************************************************)
T_Call(c, m) ==
    /\ gpc[c] \in {"idle", "done"}
    /\ Enter(c, m)
    /\ UNCHANGED <<regVars, ppc, jobVars>>

(***************************************************************************)
(* Request inputs                                                          *)
(***************************************************************************)
Hashes == {"h1", "h2"}

\* session_id: client-supplied, or a fresh uuid4
Sids == {"s1", "s2"}

\* the uploaded file's name without its extension, as "_"-separated tokens
Fnames == {<<"song">>}

\* external videos: the id names the downloaded file <id>.wav; "v_2" is an
\* id that contains "_"
Videos == {"v1", "v_2"}
YtId(v) == IF v = "v1" THEN <<"v1">> ELSE <<"v", "2">>
YtHash(v) == IF v = "v1" THEN "h1" ELSE "h2"

NoReq == [kind |-> "none", mode |-> "fast", hash |-> "", base |-> <<>>]

(***************************************************************************)
(* Results and events                                                      *)
(***************************************************************************)
\* the dict split_audio returns; sample_rate 0 stands for None
NoResult ==
    [success |-> FALSE, names |-> <<>>, files |-> <<>>, sample_rate |-> 0,
     cache_hit |-> FALSE, file_hash |-> "", error |-> "", mock |-> FALSE]

FailResult(msg) == [NoResult EXCEPT !.error = msg]

ProgressEvent(p) == [type |-> "progress", percent |-> p, data |-> NoResult]
MetadataEvent == [type |-> "metadata", percent |-> 0, data |-> NoResult]
CompleteEvent(d) == [type |-> "complete", percent |-> 0, data |-> d]
ErrorEvent(msg) == [type |-> "error", percent |-> 0, data |-> FailResult(msg)]
Keepalive == [type |-> "keepalive", percent |-> 0, data |-> NoResult]

IsTerminal(e) == e.type \in {"complete", "error"}

RECURSIVE ProgressEvents(_)
ProgressEvents(ps) ==
    IF ps = <<>> THEN <<>>
    ELSE <<ProgressEvent(Head(ps))>> \o ProgressEvents(Tail(ps))

(***************************************************************************)
(* The cache tree                                                          *)
(***************************************************************************)
FilesIn(h, m) == {f.name : f \in {g \in cacheFiles : g.hash = h /\ g.mode = m}}

\* stem_names = list(self.model.sources): the loaded model separates the
\* stems declared for it (the order within the list is the library's)
ModelSources(model) == MODEL_STEMS(model)

\* f"{audio_path.stem}_{stem_name}_{self.model_name}.wav"
StemFileName(base, stem, model) == base \o <<stem>> \o ModelTokens(model)

\* cache_dir.glob(f"*_{stem_name}_*.wav"): the name holds "_<stem>_", which
\* is a token that is neither the first nor the last one
GlobStem(stem, name) == \E i \in 2..(Len(name) - 1) : name[i] = stem

\* stem_file.stem.split("_")[1] if "_" in stem_file.stem else stem_file.stem
SplitName(name) == IF Len(name) >= 2 THEN name[2] ELSE name[1]

RECURSIVE SetToSeq(_)
SetToSeq(S) ==
    IF S = {} THEN <<>>
    ELSE LET x == CHOOSE y \in S : TRUE IN <<x>> \o SetToSeq(S \ {x})

\* the sequences that pick one member of cand[i] for each i
RECURSIVE Picks(_, _)
Picks(cand, n) ==
    IF n = 0 THEN {<<>>}
    ELSE {Append(p, f) : p \in Picks(cand, n - 1), f \in cand[n]}

\* a lookup that skips the stems it does not find instead of returning a
\* miss, and reports a hit with the stems it found
CheckCacheHits_Partial(model, h, m) ==
    IF <<h, m>> \notin cacheDirs THEN {}
    ELSE LET expected == MODEL_STEMS(model)
             found == SelectSeq(expected,
                        LAMBDA st : \E n \in FilesIn(h, m) : GlobStem(st, n))
             cand == [i \in 1..Len(found) |->
                        {n \in FilesIn(h, m) : GlobStem(found[i], n)}]
         IN IF found = <<>> THEN {}
            ELSE {[success |-> TRUE, names |-> found, files |-> p,
                   sample_rate |-> SampleRate, cache_hit |-> TRUE,
                   file_hash |-> h, error |-> "", mock |-> FALSE] :
                     p \in Picks(cand, Len(found))}

\* librosa.load(stem_path) raises for a file that does not decode
Readable(h, m, n) == [hash |-> h, mode |-> m, name |-> n] \notin unreadable

\* check_cache, the glob part: the ways it can pick matching_files[0] for
\* every expected stem (whichever match the directory listing yields first);
\* the empty set when the directory or a match for some stem is missing
CachePicks(model, h, m) ==
    IF <<h, m>> \notin cacheDirs THEN {}
    ELSE LET expected == MODEL_STEMS(model)
             cand == [i \in 1..Len(expected) |->
                        {n \in FilesIn(h, m) : GlobStem(expected[i], n)}]
         IN IF \E i \in 1..Len(expected) : cand[i] = {} THEN {}
            ELSE Picks(cand, Len(expected))

\* SplitterEngine.check_cache: the results it can return as a hit for the
\* engine's model under baseDir/h/m, one for each pick whose files all
\* decode; the empty set when it can only return a miss
CheckCacheHits(model, h, m) ==
    {[success |-> TRUE, names |-> MODEL_STEMS(model), files |-> p,
      sample_rate |-> SampleRate, cache_hit |-> TRUE,
      file_hash |-> h, error |-> "", mock |-> FALSE] :
        p \in {q \in CachePicks(model, h, m) :
                 \A i \in 1..Len(q) : Readable(h, m, q[i])}}

\* SplitterEngine.check_cache can return (False, None): the directory or a
\* stem is missing, or a picked stem file does not decode ("except Exception:
\* return False, None")
CheckCacheMisses(model, h, m) ==
    \/ CachePicks(model, h, m) = {}
    \/ \E q \in CachePicks(model, h, m) : \E i \in 1..Len(q) : ~Readable(h, m, q[i])

\* SplitterEngine._mock_split
MockResult(base, model) ==
    [success |-> TRUE, names |-> MODEL_STEMS(model),
     files |-> [i \in 1..Len(MODEL_STEMS(model)) |->
                  StemFileName(base, MODEL_STEMS(model)[i], model)],
     sample_rate |-> SampleRate, cache_hit |-> FALSE,
     file_hash |-> "mock_hash", error |-> "", mock |-> TRUE]

MockPercents(model) ==
    [i \in 1..Len(MODEL_STEMS(model)) |-> 20 + (i * 70) \div Len(MODEL_STEMS(model))]

\* the stem loop's share of the scale without the 70 it starts from
StemPercent_NoOffset(i, n) == (i * 25) \div n

\* int(70 + (idx + 1) * progress_per_stem), idx from 0
StemPercent(i, n) == 70 + (i * 25) \div n

\* the success dict of split_audio after the stem loop
SplitResult(base, model, h) ==
    [success |-> TRUE, names |-> ModelSources(model),
     files |-> [i \in 1..Len(ModelSources(model)) |->
                  StemFileName(base, ModelSources(model)[i], model)],
     sample_rate |-> SampleRate, cache_hit |-> FALSE,
     file_hash |-> h, error |-> "", mock |-> FALSE]

\* the cached branch of split_youtube_stream.process: one entry per *.wav
\* file of the directory, named by split("_")[1]
YoutubeCachedData(h, m) ==
    LET fs == SetToSeq(FilesIn(h, m))
    IN [success |-> TRUE, names |-> [i \in 1..Len(fs) |-> SplitName(fs[i])],
        files |-> fs, sample_rate |-> 0, cache_hit |-> TRUE,
        file_hash |-> h, error |-> "", mock |-> FALSE]

(***************************************************************************)
(* Helpers of the job steps                                                *)
(***************************************************************************)
Store(d, k, v) == [x \in DOMAIN d \cup {k} |-> IF x = k THEN v ELSE d[x]]
Remove(d, k) == [x \in DOMAIN d \ {k} |-> d[x]]

\* audio_path.exists(): a downloaded file stays in YOUTUBE_DIR
InputExists(j) == req[j].kind = "youtube" \/ req[j].base \in DOMAIN uploads

\* compute_file_hash(audio_path): the bytes the path holds now
InputHash(j) == IF req[j].kind = "youtube" THEN req[j].hash ELSE uploads[req[j].base]

\* engine.model_name of the engine the job obtained
EngineModel(j) == ModelName(gret[j].mode)

\* a put that waits until a consumer is there to take the event
Put_NeedsConsumer(j, evs) ==
    /\ cpc[j] # "closed"
    /\ queue' = [queue EXCEPT ![j] = @ \o evs]
    /\ pushed' = [pushed EXCEPT ![j] = @ \o evs]

\* queue.put(event)
Put(j, evs) ==
    /\ queue' = [queue EXCEPT ![j] = @ \o evs]
    /\ pushed' = [pushed EXCEPT ![j] = @ \o evs]

\* the progress callbacks: send_progress for the streaming paths, a log line
\* for the non-streaming endpoint
Report(j, ps) ==
    IF req[j].kind = "sync" THEN UNCHANGED <<queue, pushed>>
    ELSE Put(j, ProgressEvents(ps))

Finished == {k \in Jobs : pc[k] = "finished"}

NoResponse == [status |-> 0, data |-> NoResult]

(***************************************************************************)
(* Admission: the three endpoints, up to the start of the worker           *)
(***************************************************************************)
\* what a client can send as the mode selector
ModeInputs == Modes \cup {"turbo"}

Endpoints == {"upload", "youtube", "sync"}

\* a handler that validates the mode only after it has saved the upload
A_Rejected_SavesFirst(j, kind, m) ==
    /\ pc[j] = "idle"
    /\ loop = "free"
    /\ m \notin Modes
    /\ uploads' = Store(uploads, <<"s1", "song">>, "h1")
    /\ response' = [response EXCEPT ![j] =
                      [status |-> 400, data |-> FailResult("invalid_mode")]]
    /\ UNCHANGED <<regVars, callVars, ppc, cacheDirs, cacheFiles, loop, pc, req, res,
                   idx, streamVars, consumerVars, outdir, prior, deviceCache,
                   unreadable, auxVars>>

\* the three endpoints, the checks before anything is saved or started:
\* if mode not in ["fast", "detailed"]: raise HTTPException(400), then
\* if not _model_ready[mode].is_set(): raise HTTPException(503)
A_Rejected(j, kind, m) ==
    /\ pc[j] = "idle"
    /\ loop = "free"
    /\ IF m \notin Modes
       THEN response' = [response EXCEPT ![j] =
                           [status |-> 400, data |-> FailResult("invalid_mode")]]
       ELSE /\ ~model_ready[m]
            /\ response' = [response EXCEPT ![j] =
                              [status |-> 503, data |-> FailResult("loading")]]
    /\ UNCHANGED <<regVars, callVars, ppc, fsVars, loop, pc, req, res, idx,
                   streamVars, consumerVars, outdir, prior, deviceCache, unreadable, auxVars>>

\* split_audio_stream: validate, save the upload, create the streamer, start
\* the run_split_with_progress thread (which first calls get_splitter_engine)
A_Upload(j, m, sid, fn, h) ==
    /\ pc[j] = "idle"
    /\ loop = "free"
    /\ model_ready[m]
    /\ uploads' = Store(uploads, <<sid>> \o fn, h)
    /\ req' = [req EXCEPT ![j] =
                 [kind |-> "upload", mode |-> m, hash |-> h, base |-> <<sid>> \o fn]]
    /\ Enter(j, m)
    /\ pc' = [pc EXCEPT ![j] = "engine"]
    /\ cpc' = [cpc EXCEPT ![j] = "check"]
    /\ prior' = [prior EXCEPT ![j] = Finished]
    /\ UNCHANGED <<regVars, ppc, cacheDirs, cacheFiles, loop, res, idx, queue, done,
                   pushed, emitted, response, outdir, lastYield, deviceCache, unreadable, auxVars>>

\* split_youtube_stream: validate, create the streamer, create the process task
A_Youtube(j, m, v) ==
    /\ pc[j] = "idle"
    /\ loop = "free"
    /\ model_ready[m]
    /\ req' = [req EXCEPT ![j] =
                 [kind |-> "youtube", mode |-> m, hash |-> YtHash(v), base |-> YtId(v)]]
    /\ pc' = [pc EXCEPT ![j] = "y_start"]
    /\ cpc' = [cpc EXCEPT ![j] = "check"]
    /\ prior' = [prior EXCEPT ![j] = Finished]
    /\ UNCHANGED <<regVars, callVars, ppc, fsVars, loop, res, idx, queue, done,
                   pushed, emitted, response, outdir, lastYield, deviceCache, unreadable, auxVars>>

\* split_audio_endpoint: validate, save the upload, then run on the event
\* loop without yielding until the response
A_Sync(j, m, sid, fn, h) ==
    /\ pc[j] = "idle"
    /\ loop = "free"
    /\ model_ready[m]
    /\ uploads' = Store(uploads, <<sid>> \o fn, h)
    /\ req' = [req EXCEPT ![j] =
                 [kind |-> "sync", mode |-> m, hash |-> h, base |-> <<sid>> \o fn]]
    /\ Enter(j, m)
    /\ loop' = j
    /\ pc' = [pc EXCEPT ![j] = "engine"]
    /\ prior' = [prior EXCEPT ![j] = Finished]
    /\ UNCHANGED <<regVars, ppc, cacheDirs, cacheFiles, res, idx, queue, done,
                   pushed, cpc, emitted, response, outdir, lastYield, deviceCache, unreadable, auxVars>>

(***************************************************************************)
(* split_youtube_stream.process, before split_audio                        *)
(***************************************************************************)
\* send_progress(2, ...), then await the download
Y_Start(j) ==
    /\ pc[j] = "y_start"
    /\ loop = "free"
    /\ Put(j, <<ProgressEvent(2)>>)
    /\ pc' = [pc EXCEPT ![j] = "y_download"]
    /\ UNCHANGED <<regVars, callVars, ppc, fsVars, loop, req, res, idx, done,
                   consumerVars, response, outdir, prior, deviceCache, unreadable, auxVars>>

\* the download returns: send_metadata, then get_splitter_engine
Y_Downloaded(j) ==
    /\ pc[j] = "y_download"
    /\ loop = "free"
    /\ loop' = j
    /\ Put(j, <<MetadataEvent>>)
    /\ Enter(j, req[j].mode)
    /\ pc' = [pc EXCEPT ![j] = "engine"]
    /\ UNCHANGED <<regVars, ppc, fsVars, req, res, idx, done,
                   consumerVars, response, outdir, prior, deviceCache, unreadable, auxVars>>

\* the download raises
Y_DownloadFails(j) ==
    /\ pc[j] = "y_download"
    /\ loop = "free"
    /\ loop' = j
    /\ pc' = [pc EXCEPT ![j] = "exc"]
    /\ UNCHANGED <<regVars, callVars, ppc, fsVars, req, res, idx, streamVars,
                   consumerVars, response, outdir, prior, deviceCache, unreadable, auxVars>>

\* if cache_dir.exists() and any(cache_dir.glob("*.wav")): send_complete
Y_Probe(j) ==
    /\ pc[j] = "engine"
    /\ gpc[j] = "done"
    /\ req[j].kind = "youtube"
    /\ gpc' = [gpc EXCEPT ![j] = "idle"]
    /\ IF <<req[j].hash, req[j].mode>> \in cacheDirs /\ FilesIn(req[j].hash, req[j].mode) # {}
       THEN /\ Put(j, <<CompleteEvent(YoutubeCachedData(req[j].hash, req[j].mode))>>)
            /\ pc' = [pc EXCEPT ![j] = "setdone"]
       ELSE /\ pc' = [pc EXCEPT ![j] = "sa_begin"]
            /\ UNCHANGED <<queue, pushed>>
    /\ UNCHANGED <<regVars, gmode, gnew, gret, ppc, fsVars, loop, req, res, idx, done,
                   consumerVars, response, outdir, prior, deviceCache, unreadable, auxVars>>

(***************************************************************************)
(* SplitterEngine.split_audio, called by all three paths                   *)
(***************************************************************************)
AtSplitStart(j) ==
    \/ pc[j] = "sa_begin"
    \/ pc[j] = "engine" /\ gpc[j] = "done" /\ req[j].kind \in {"upload", "sync"}

\* the input check, report_progress(2), report_progress(3), check_cache and,
\* on a miss, report_progress(5) and the mock branch
SA_Begin(j) ==
    /\ AtSplitStart(j)
    /\ gpc' = [gpc EXCEPT ![j] = "idle"]
    /\ IF ~InputExists(j)
       THEN /\ res' = [res EXCEPT ![j] = FailResult("not_found")]
            /\ pc' = [pc EXCEPT ![j] = "post"]
            /\ UNCHANGED <<queue, pushed>>
       ELSE \/ \E r \in CheckCacheHits(EngineModel(j), InputHash(j), req[j].mode) :
                 /\ Report(j, <<2, 3, 100>>)
                 /\ res' = [res EXCEPT ![j] = r]
                 /\ pc' = [pc EXCEPT ![j] = "post"]
            \/ /\ CheckCacheMisses(EngineModel(j), InputHash(j), req[j].mode)
               /\ Report(j, <<2, 3, 5>>)
               /\ pc' = [pc EXCEPT ![j] = IF gret[j].mock THEN "sa_mock" ELSE "sa_load"]
               /\ UNCHANGED res
    /\ UNCHANGED <<regVars, gmode, gnew, gret, ppc, fsVars, loop, req, idx, done,
                   consumerVars, response, outdir, prior, deviceCache, unreadable, auxVars>>

\* _mock_split: one progress event per stem, then 100; nothing is written
SA_Mock(j) ==
    /\ pc[j] = "sa_mock"
    /\ Report(j, MockPercents(EngineModel(j)) \o <<100>>)
    /\ res' = [res EXCEPT ![j] = MockResult(req[j].base, EngineModel(j))]
    /\ pc' = [pc EXCEPT ![j] = "post"]
    /\ UNCHANGED <<regVars, callVars, ppc, fsVars, loop, req, idx, done,
                   consumerVars, response, outdir, prior, deviceCache, unreadable, auxVars>>

\* stages 1 and 2: librosa.load, the tensor, the output directory
\* (mkdir(parents=True, exist_ok=True)), up to the call of apply_model
SA_Load(j) ==
    /\ pc[j] = "sa_load"
    /\ InputExists(j)
    /\ Report(j, <<10, 15, 20, 25, 30>>)
    /\ outdir' = [outdir EXCEPT ![j] = InputHash(j)]
    /\ cacheDirs' = cacheDirs \cup {<<InputHash(j), req[j].mode>>}
    /\ pc' = [pc EXCEPT ![j] = "sa_infer"]
    /\ UNCHANGED <<regVars, callVars, ppc, uploads, cacheFiles, loop, req, res, idx,
                   done, consumerVars, response, prior>>
    /\ deviceCache' = [deviceCache EXCEPT ![j] = TRUE]
    \* a mode directory that mkdir creates is a new entry of the content-hash
    \* directory, which sets that directory's st_mtime; exist_ok on an
    \* existing mode directory touches nothing
    /\ dirOld' = IF <<InputHash(j), req[j].mode>> \in cacheDirs
                 THEN dirOld ELSE dirOld \ {InputHash(j)}
    /\ UNCHANGED <<unreadable, disk, digests, statusReq, fileOld, dspVars>>

\* librosa.load raises (the file is gone or does not decode): except Exception
SA_LoadFails(j) ==
    /\ pc[j] = "sa_load"
    /\ Report(j, <<10>>)
    /\ res' = [res EXCEPT ![j] = FailResult("generic")]
    /\ pc' = [pc EXCEPT ![j] = "post"]
    /\ UNCHANGED <<regVars, callVars, ppc, fsVars, loop, req, idx, done,
                   consumerVars, response, outdir, prior>>
    /\ deviceCache' = [deviceCache EXCEPT ![j] = FALSE]
    /\ UNCHANGED <<unreadable, auxVars>>

\* apply_model returns
SA_Infer(j) ==
    /\ pc[j] = "sa_infer"
    /\ Report(j, <<70>>)
    /\ idx' = [idx EXCEPT ![j] = 1]
    /\ pc' = [pc EXCEPT ![j] = "sa_save"]
    /\ UNCHANGED <<regVars, callVars, ppc, fsVars, loop, req, res, done,
                   consumerVars, response, outdir, prior, deviceCache, unreadable, auxVars>>

\* apply_model raises RuntimeError("... out of memory ..."): MemoryError,
\* which "except MemoryError: raise" passes on as it is
SA_InferOOM(j) ==
    /\ pc[j] = "sa_infer"
    /\ pc' = [pc EXCEPT ![j] = "memerr"]
    /\ UNCHANGED <<regVars, callVars, ppc, fsVars, loop, req, res, idx, streamVars,
                   consumerVars, response, outdir, prior, deviceCache, unreadable, auxVars>>

\* an except clause that also switches the shared engine to mock mode
SA_InferFails_FallsBackToMock(j) ==
    /\ pc[j] = "sa_infer"
    /\ res' = [res EXCEPT ![j] = FailResult("generic")]
    /\ pc' = [pc EXCEPT ![j] = "post"]
    /\ engines' = [engines EXCEPT ![req[j].mode].mock = TRUE]
    /\ UNCHANGED <<locks, model_ready, constructed, callVars, ppc, fsVars, loop, req,
                   idx, streamVars, consumerVars, response, outdir, prior>>
    /\ deviceCache' = [deviceCache EXCEPT ![j] = FALSE]
    /\ UNCHANGED <<unreadable, auxVars>>

\* apply_model raises anything else: except Exception, which runs
\* torch.cuda.empty_cache() and returns the failure dict
SA_InferFails(j) ==
    /\ pc[j] = "sa_infer"
    /\ res' = [res EXCEPT ![j] = FailResult("generic")]
    /\ pc' = [pc EXCEPT ![j] = "post"]
    /\ UNCHANGED <<regVars, callVars, ppc, fsVars, loop, req, idx, streamVars,
                   consumerVars, response, outdir, prior>>
    /\ deviceCache' = [deviceCache EXCEPT ![j] = FALSE]
    /\ UNCHANGED <<unreadable, auxVars>>

\* one turn of the stem loop: report_progress, sf.write; after the last
\* stem compute_file_hash, report_progress(100) and the success dict
SA_Save(j) ==
    /\ pc[j] = "sa_save"
    /\ <<outdir[j], req[j].mode>> \in cacheDirs
    /\ LET stems == ModelSources(EngineModel(j))
           n == Len(stems)
           last == idx[j] = n
       IN /\ cacheFiles' = cacheFiles \cup
               {[hash |-> outdir[j], mode |-> req[j].mode,
                 name |-> StemFileName(req[j].base, stems[idx[j]], EngineModel(j))]}
          /\ IF ~last
             THEN /\ Report(j, <<StemPercent(idx[j], n)>>)
                  /\ idx' = [idx EXCEPT ![j] = @ + 1]
                  /\ UNCHANGED <<pc, res>>
             ELSE /\ pc' = [pc EXCEPT ![j] = "post"]
                  /\ UNCHANGED idx
                  /\ IF InputExists(j)
                     THEN /\ Report(j, <<StemPercent(idx[j], n), 100>>)
                          /\ res' = [res EXCEPT ![j] =
                                SplitResult(req[j].base, EngineModel(j), InputHash(j))]
                     ELSE /\ Report(j, <<StemPercent(idx[j], n)>>)
                          /\ res' = [res EXCEPT ![j] = FailResult("generic")]
    /\ UNCHANGED <<regVars, callVars, ppc, uploads, cacheDirs, loop, req, done,
                   consumerVars, response, outdir, prior>>
    \* del sources, ...; torch.cuda.empty_cache() after the last stem
    /\ deviceCache' = [deviceCache EXCEPT ![j] = IF idx[j] = Len(ModelSources(EngineModel(j)))
                                                 THEN FALSE ELSE @]
    \* sf.write replaces whatever the path held
    /\ unreadable' = unreadable \
          {[hash |-> outdir[j], mode |-> req[j].mode,
            name |-> StemFileName(req[j].base, ModelSources(EngineModel(j))[idx[j]],
                                  EngineModel(j))]}
    \* the file is written now, inside the mode directory: the st_mtime of
    \* the content-hash directory above it stays as it is
    /\ fileOld' = fileOld \
          {[hash |-> outdir[j], mode |-> req[j].mode,
            name |-> StemFileName(req[j].base, ModelSources(EngineModel(j))[idx[j]],
                                  EngineModel(j))]}
    /\ UNCHANGED <<disk, digests, statusReq, dirOld, dspVars>>

\* sf.write raises: except Exception
SA_SaveFails(j) ==
    /\ pc[j] = "sa_save"
    /\ Report(j, <<StemPercent(idx[j], Len(ModelSources(EngineModel(j))))>>)
    /\ res' = [res EXCEPT ![j] = FailResult("generic")]
    /\ pc' = [pc EXCEPT ![j] = "post"]
    /\ UNCHANGED <<regVars, callVars, ppc, fsVars, loop, req, idx, done,
                   consumerVars, response, outdir, prior>>
    /\ deviceCache' = [deviceCache EXCEPT ![j] = FALSE]
    /\ UNCHANGED <<unreadable, auxVars>>

(***************************************************************************)
(* After split_audio: the three orchestrators                              *)
(***************************************************************************)
\* ProgressStreamer.send_complete / send_error, up to queue.put
SendTerminal(j, ev) ==
    /\ Put(j, <<ev>>)
    /\ pc' = [pc EXCEPT ![j] = "setdone"]

\* without the return after send_error the handler goes on to result["stems"],
\* which a failed result lacks, and except Exception sends a second error
J_PostError_NoReturn(j) ==
    /\ pc[j] = "post"
    /\ req[j].kind = "upload"
    /\ ~res[j].success
    /\ Put(j, <<ErrorEvent(res[j].error), ErrorEvent("generic")>>)
    /\ pc' = [pc EXCEPT ![j] = "setdone"]
    /\ UNCHANGED <<regVars, callVars, ppc, fsVars, loop, req, res, idx, done,
                   consumerVars, response, outdir, prior, deviceCache, unreadable, auxVars>>

\* run_split_with_progress: if not result.get("success"): send_error; return
J_PostError(j) ==
    /\ pc[j] = "post"
    /\ req[j].kind = "upload"
    /\ ~res[j].success
    /\ SendTerminal(j, ErrorEvent(res[j].error))
    /\ UNCHANGED <<regVars, callVars, ppc, fsVars, loop, req, res, idx, done,
                   consumerVars, response, outdir, prior, deviceCache, unreadable, auxVars>>

\* run_split_with_progress: file_path.unlink(missing_ok=True); send_complete
J_PostComplete(j) ==
    /\ pc[j] = "post"
    /\ req[j].kind = "upload"
    /\ res[j].success
    /\ uploads' = Remove(uploads, req[j].base)
    /\ SendTerminal(j, CompleteEvent(res[j]))
    /\ UNCHANGED <<regVars, callVars, ppc, cacheDirs, cacheFiles, loop, req, res, idx,
                   done, consumerVars, response, outdir, prior, deviceCache, unreadable, auxVars>>

\* file_path.unlink raises OSError
J_PostUnlinkFails(j) ==
    /\ pc[j] = "post"
    /\ req[j].kind \in {"upload", "sync"}
    /\ res[j].success
    /\ pc' = [pc EXCEPT ![j] = "exc"]
    /\ UNCHANGED <<regVars, callVars, ppc, fsVars, loop, req, res, idx, streamVars,
                   consumerVars, response, outdir, prior, deviceCache, unreadable, auxVars>>

\* process: send_error on success=false, else send_complete
Y_Post(j) ==
    /\ pc[j] = "post"
    /\ req[j].kind = "youtube"
    /\ SendTerminal(j, IF res[j].success THEN CompleteEvent(res[j])
                       ELSE ErrorEvent(res[j].error))
    /\ UNCHANGED <<regVars, callVars, ppc, fsVars, loop, req, res, idx, done,
                   consumerVars, response, outdir, prior, deviceCache, unreadable, auxVars>>

\* split_audio_endpoint: success=false raises HTTPException inside the try;
\* else unlink and the response
S_Post(j) ==
    /\ pc[j] = "post"
    /\ req[j].kind = "sync"
    /\ IF res[j].success
       THEN /\ uploads' = Remove(uploads, req[j].base)
            /\ response' = [response EXCEPT ![j] = [status |-> 200, data |-> res[j]]]
            /\ pc' = [pc EXCEPT ![j] = "finished"]
            /\ loop' = "free"
       ELSE /\ pc' = [pc EXCEPT ![j] = "exc"]
            /\ UNCHANGED <<uploads, response, loop>>
    /\ UNCHANGED <<regVars, callVars, ppc, cacheDirs, cacheFiles, req, res, idx,
                   streamVars, consumerVars, outdir, prior, deviceCache, unreadable, auxVars>>

\* except MemoryError (run_split_with_progress, split_audio_endpoint); process
\* has no such handler and reaches except Exception with the engine's message
J_MemoryError(j) ==
    /\ pc[j] = "memerr"
    /\ IF req[j].kind = "sync"
       THEN /\ response' = [response EXCEPT ![j] =
                              [status |-> 500, data |-> FailResult("oom_api")]]
            /\ pc' = [pc EXCEPT ![j] = "finished"]
            /\ loop' = "free"
            /\ UNCHANGED <<queue, pushed>>
       ELSE /\ SendTerminal(j, ErrorEvent(IF req[j].kind = "upload"
                                          THEN "oom_api" ELSE "oom_engine"))
            /\ UNCHANGED <<response, loop>>
    /\ UNCHANGED <<regVars, callVars, ppc, fsVars, req, res, idx, done,
                   consumerVars, outdir, prior, deviceCache, unreadable, auxVars>>

\* except Exception as e
J_Exception(j) ==
    /\ pc[j] = "exc"
    /\ IF req[j].kind = "sync"
       THEN /\ response' = [response EXCEPT ![j] =
                              [status |-> 500, data |-> FailResult("generic")]]
            /\ pc' = [pc EXCEPT ![j] = "finished"]
            /\ loop' = "free"
            /\ UNCHANGED <<queue, pushed>>
       ELSE /\ SendTerminal(j, ErrorEvent("generic"))
            /\ UNCHANGED <<response, loop>>
    /\ UNCHANGED <<regVars, callVars, ppc, fsVars, req, res, idx, done,
                   consumerVars, outdir, prior, deviceCache, unreadable, auxVars>>

\* a terminal send that forgets self.done.set()
J_SetDone_NoSet(j) ==
    /\ pc[j] = "setdone"
    /\ pc' = [pc EXCEPT ![j] = "finished"]
    /\ loop' = IF loop = j THEN "free" ELSE loop
    /\ UNCHANGED <<regVars, callVars, ppc, fsVars, req, res, idx, streamVars,
                   consumerVars, response, outdir, prior, deviceCache, unreadable, auxVars>>

\* send_complete / send_error: self.done.set(); the worker ends
J_SetDone(j) ==
    /\ pc[j] = "setdone"
    /\ done' = [done EXCEPT ![j] = TRUE]
    /\ pc' = [pc EXCEPT ![j] = "finished"]
    /\ loop' = IF loop = j THEN "free" ELSE loop
    /\ UNCHANGED <<regVars, callVars, ppc, fsVars, req, res, idx, queue, pushed,
                   consumerVars, response, outdir, prior, deviceCache, unreadable, auxVars>>

(***************************************************************************)
(* generate_sse_stream: the consumer, on the event loop                    *)
(***************************************************************************)
\* a consumer that returns when done is set, without the final drain loop
C_Check_NoDrain(j) ==
    /\ cpc[j] = "check"
    /\ loop = "free"
    /\ cpc' = [cpc EXCEPT ![j] = IF done[j] THEN "end" ELSE "get"]
    /\ loop' = IF done[j] THEN "free" ELSE "consumer"
    /\ UNCHANGED <<regVars, callVars, ppc, fsVars, pc, req, res, idx, streamVars,
                   emitted, lastYield, response, outdir, prior, deviceCache, unreadable, auxVars>>

\* while not streamer.done.is_set():
C_Check(j) ==
    /\ cpc[j] = "check"
    /\ loop = "free"
    /\ cpc' = [cpc EXCEPT ![j] = IF done[j] THEN "drain" ELSE "get"]
    /\ loop' = IF done[j] THEN "free" ELSE "consumer"
    /\ UNCHANGED <<regVars, callVars, ppc, fsVars, pc, req, res, idx, streamVars,
                   emitted, lastYield, response, outdir, prior, deviceCache, unreadable, auxVars>>

\* event = streamer.queue.get(timeout=0.1); yield it
C_Get(j) ==
    /\ cpc[j] = "get"
    /\ queue[j] # <<>>
    /\ emitted' = [emitted EXCEPT ![j] = Append(@, Head(queue[j]))]
    /\ lastYield' = [lastYield EXCEPT ![j] = "event"]
    /\ queue' = [queue EXCEPT ![j] = Tail(@)]
    /\ cpc' = [cpc EXCEPT ![j] = "check"]
    /\ loop' = "free"
    /\ UNCHANGED <<regVars, callVars, ppc, fsVars, pc, req, res, idx, done, pushed,
                   response, outdir, prior, deviceCache, unreadable, auxVars>>

\* except queue.Empty: yield ": keepalive"; await asyncio.sleep(0.1)
C_Timeout(j) ==
    /\ cpc[j] = "get"
    /\ queue[j] = <<>>
    /\ lastYield' = [lastYield EXCEPT ![j] = "keepalive"]
    /\ cpc' = [cpc EXCEPT ![j] = "check"]
    /\ loop' = "free"
    /\ UNCHANGED <<regVars, callVars, ppc, fsVars, pc, req, res, idx, streamVars,
                   emitted, response, outdir, prior, deviceCache, unreadable, auxVars>>

\* a drain loop that yields the head of the queue without removing it
C_Drain_NoPop(j) ==
    /\ cpc[j] = "drain"
    /\ loop = "free"
    /\ IF queue[j] = <<>>
       THEN /\ cpc' = [cpc EXCEPT ![j] = "end"]
            /\ UNCHANGED <<emitted, lastYield>>
       ELSE /\ emitted' = [emitted EXCEPT ![j] = Append(@, Head(queue[j]))]
            /\ lastYield' = [lastYield EXCEPT ![j] = "drained"]
            /\ UNCHANGED cpc
    /\ UNCHANGED <<regVars, callVars, ppc, fsVars, loop, pc, req, res, idx,
                   streamVars, response, outdir, prior, deviceCache, unreadable, auxVars>>

\* a drain loop that gives up at once, whatever the queue holds
C_Drain_GivesUp(j) ==
    /\ cpc[j] = "drain"
    /\ loop = "free"
    /\ cpc' = [cpc EXCEPT ![j] = "end"]
    /\ UNCHANGED <<regVars, callVars, ppc, fsVars, loop, pc, req, res, idx, streamVars,
                   emitted, lastYield, response, outdir, prior, deviceCache, unreadable,
                   auxVars>>

\* while not streamer.queue.empty(): yield streamer.queue.get_nowait()
C_Drain(j) ==
    /\ cpc[j] = "drain"
    /\ loop = "free"
    /\ IF queue[j] = <<>>
       THEN /\ cpc' = [cpc EXCEPT ![j] = "end"]
            /\ UNCHANGED <<queue, emitted, lastYield>>
       ELSE /\ emitted' = [emitted EXCEPT ![j] = Append(@, Head(queue[j]))]
            /\ lastYield' = [lastYield EXCEPT ![j] = "drained"]
            /\ queue' = [queue EXCEPT ![j] = Tail(@)]
            /\ UNCHANGED cpc
    /\ UNCHANGED <<regVars, callVars, ppc, fsVars, loop, pc, req, res, idx, done,
                   pushed, response, outdir, prior, deviceCache, unreadable, auxVars>>

Init ==
    /\ engines = <<>>
    /\ locks = [m \in Modes |-> "free"]
    /\ model_ready = [m \in Modes |-> FALSE]
    /\ constructed = [m \in Modes |-> 0]
    /\ gpc = [c \in Callers |-> "idle"]
    /\ gmode = [c \in Callers |-> "fast"]
    /\ gnew = [c \in Callers |-> NoEngine]
    /\ gret = [c \in Callers |-> NoEngine]
    /\ ppc = "start"
    /\ uploads = <<>>
    /\ cacheDirs = {}
    /\ cacheFiles = {}
    /\ unreadable = {}
    /\ disk = <<>>
    /\ digests = {}
    /\ statusReq = NoStatusReq
    /\ dirOld = {}
    /\ fileOld = {}
    /\ waveform = NoWave
    /\ stereo = NoWave
    /\ loop = "free"
    /\ pc = [j \in Jobs |-> "idle"]
    /\ req = [j \in Jobs |-> NoReq]
    /\ res = [j \in Jobs |-> NoResult]
    /\ idx = [j \in Jobs |-> 0]
    /\ queue = [j \in Jobs |-> <<>>]
    /\ done = [j \in Jobs |-> FALSE]
    /\ pushed = [j \in Jobs |-> <<>>]
    /\ cpc = [j \in Jobs |-> "idle"]
    /\ emitted = [j \in Jobs |-> <<>>]
    /\ response = [j \in Jobs |-> NoResponse]
    /\ outdir = [j \in Jobs |-> ""]
    /\ lastYield = [j \in Jobs |-> "none"]
    /\ prior = [j \in Jobs |-> {}]
    /\ deviceCache = [j \in Jobs |-> FALSE]

RegistryCallers == TestCallers \cup {Preload}

NextRegistry ==
    \/ P_CallDetailed
    \/ P_CallFast
    \/ P_Finish
    \/ \E c \in TestCallers, m \in Modes : T_Call(c, m)
    \/ \E c \in RegistryCallers : G_Check1(c)
    \/ \E c \in RegistryCallers : G_Acquire(c)
    \/ \E c \in RegistryCallers : G_Check2(c)
    \/ \E c \in RegistryCallers : G_Construct(c)
    \/ \E c \in RegistryCallers : G_Publish(c)
    \/ \E c \in RegistryCallers : G_SetReady(c)
    \/ \E c \in RegistryCallers : G_Release(c)
    \/ \E c \in RegistryCallers : G_Return(c)

SpecRegistry == Init /\ [][NextRegistry]_vars

(***************************************************************************)
(* The server: the preload thread and the jobs of the three request paths  *)
(***************************************************************************)
JobCallers == Jobs \cup {Preload}

\* the steps of a job of a streaming path
StreamStep(j) ==
    \/ Y_Start(j)
    \/ Y_Downloaded(j)
    \/ Y_DownloadFails(j)
    \/ Y_Probe(j)
    \/ G_Check1(j)
    \/ G_Return(j)
    \/ SA_Begin(j)
    \/ SA_Mock(j)
    \/ SA_Load(j)
    \/ SA_LoadFails(j)
    \/ SA_Infer(j)
    \/ SA_InferOOM(j)
    \/ SA_InferFails(j)
    \/ SA_Save(j)
    \/ SA_SaveFails(j)
    \/ J_PostError(j)
    \/ J_PostComplete(j)
    \/ J_PostUnlinkFails(j)
    \/ Y_Post(j)
    \/ J_MemoryError(j)
    \/ J_Exception(j)
    \/ J_SetDone(j)

JobStep(j) ==
    \/ StreamStep(j)
    \/ S_Post(j)

PreloadStep ==
    \/ P_CallDetailed
    \/ P_CallFast
    \/ P_Finish
    \/ G_Check1(Preload)
    \/ G_Acquire(Preload)
    \/ G_Check2(Preload)
    \/ G_Construct(Preload)
    \/ G_Publish(Preload)
    \/ G_SetReady(Preload)
    \/ G_Release(Preload)
    \/ G_Return(Preload)

\* the one job of Spec
One == {"j1"}

\* the server from boot: the preload thread, one job of any of the three
\* request paths, and requests that the endpoints reject
Next ==
    \/ PreloadStep
    \/ \E j \in One, m \in Modes, sid \in Sids, fn \in Fnames, h \in Hashes :
          A_Upload(j, m, sid, fn, h)
    \/ \E j \in One, m \in Modes, v \in Videos : A_Youtube(j, m, v)
    \/ \E j \in One, m \in Modes, sid \in Sids, fn \in Fnames, h \in Hashes :
          A_Sync(j, m, sid, fn, h)
    \/ \E j \in One : JobStep(j)
    \/ \E j \in Jobs \ One, kind \in Endpoints, m \in ModeInputs : A_Rejected(j, kind, m)

Spec == Init /\ [][Next]_vars

(***************************************************************************)
(* The server once preload_models has finished: both engines are           *)
(* published (each real, or in mock mode after a failed load) and ready    *)
(***************************************************************************)
LoadedEngine(m, mock) == [id |-> 1, mode |-> m, mock |-> mock]

Loaded ==
    /\ \E mocks \in [Modes -> BOOLEAN] :
         /\ engines = [m \in Modes |-> LoadedEngine(m, mocks[m])]
         /\ gnew = [c \in Callers |->
                      IF c = Preload THEN LoadedEngine("fast", mocks["fast"]) ELSE NoEngine]
         /\ gret = [c \in Callers |->
                      IF c = Preload THEN LoadedEngine("fast", mocks["fast"]) ELSE NoEngine]
    /\ locks = [m \in Modes |-> "free"]
    /\ model_ready = [m \in Modes |-> TRUE]
    /\ constructed = [m \in Modes |-> 1]
    /\ gpc = [c \in Callers |-> "idle"]
    /\ gmode = [c \in Callers |-> "fast"]
    /\ ppc = "done"
    /\ uploads = <<>>
    /\ loop = "free"
    /\ pc = [j \in Jobs |-> "idle"]
    /\ req = [j \in Jobs |-> NoReq]
    /\ res = [j \in Jobs |-> NoResult]
    /\ idx = [j \in Jobs |-> 0]
    /\ queue = [j \in Jobs |-> <<>>]
    /\ done = [j \in Jobs |-> FALSE]
    /\ pushed = [j \in Jobs |-> <<>>]
    /\ cpc = [j \in Jobs |-> "idle"]
    /\ emitted = [j \in Jobs |-> <<>>]
    /\ response = [j \in Jobs |-> NoResponse]
    /\ outdir = [j \in Jobs |-> ""]
    /\ lastYield = [j \in Jobs |-> "none"]
    /\ prior = [j \in Jobs |-> {}]
    /\ deviceCache = [j \in Jobs |-> FALSE]

\* OUTPUT_DIR is empty when the server starts
InitLoaded ==
    /\ Loaded
    /\ cacheDirs = {}
    /\ cacheFiles = {}
    /\ unreadable = {}
    /\ disk = <<>>
    /\ digests = {}
    /\ statusReq = NoStatusReq
    /\ dirOld = {}
    /\ fileOld = {}
    /\ waveform = NoWave
    /\ stereo = NoWave

\* OUTPUT_DIR as earlier runs of the server can have left it: under the hash
\* of an input, any of the mode directories, each holding any of the files
\* that a split of that input writes (a run can end between two stem files,
\* and files can be removed one by one)
CacheHash == "h1"

CacheBase == <<"s1", "song">>

CandidateDirs == {<<CacheHash, m>> : m \in Modes}

CandidateFiles ==
    UNION {{[hash |-> CacheHash, mode |-> m,
             name |-> StemFileName(CacheBase, MODEL_STEMS(ModelName(m))[i], ModelName(m))] :
               i \in 1..Len(MODEL_STEMS(ModelName(m)))} : m \in Modes}

InitCache ==
    /\ Loaded
    /\ cacheDirs \in SUBSET CandidateDirs
    /\ cacheFiles \in SUBSET CandidateFiles
    /\ \A f \in cacheFiles : <<f.hash, f.mode>> \in cacheDirs
    /\ unreadable = {}
    /\ disk = <<>>
    /\ digests = {}
    /\ statusReq = NoStatusReq
    /\ dirOld = {}
    /\ fileOld = {}
    /\ waveform = NoWave
    /\ stereo = NoWave

\* two jobs, of any of the three request paths, running concurrently
NextJobs ==
    \/ \E j \in Jobs, m \in Modes, sid \in Sids, fn \in Fnames, h \in Hashes :
          A_Upload(j, m, sid, fn, h)
    \/ \E j \in Jobs, m \in Modes, v \in Videos : A_Youtube(j, m, v)
    \/ \E j \in Jobs, m \in Modes, sid \in Sids, fn \in Fnames, h \in Hashes :
          A_Sync(j, m, sid, fn, h)
    \/ \E j \in Jobs : JobStep(j)

SpecJobs == InitLoaded /\ [][NextJobs]_vars

\* one job of a streaming path and the consumer of its event stream
ConsumerStep(j) ==
    \/ C_Check(j)
    \/ C_Get(j)
    \/ C_Timeout(j)
    \/ C_Drain(j)

NextStream ==
    \/ \E j \in One, m \in Modes, sid \in Sids, fn \in Fnames, h \in Hashes :
          A_Upload(j, m, sid, fn, h)
    \/ \E j \in One, m \in Modes, v \in Videos : A_Youtube(j, m, v)
    \/ \E j \in One : StreamStep(j)
    \/ \E j \in One : ConsumerStep(j)

SpecStream == InitLoaded /\ [][NextStream]_vars

\* threads are scheduled by the operating system and ready tasks by the
\* event loop in FIFO order: a step that is enabled again and again is taken
\* one job of a streaming path over a cache tree left by earlier runs
NextCache ==
    \/ \E j \in One, m \in Modes, sid \in Sids, fn \in Fnames, h \in Hashes :
          A_Upload(j, m, sid, fn, h)
    \/ \E j \in One, m \in Modes, v \in Videos : A_Youtube(j, m, v)
    \/ \E j \in One : StreamStep(j)

SpecCache == InitCache /\ [][NextCache]_vars

\* OUTPUT_DIR with the complete entries of CacheHash, in which up to
\* MaxUnreadable stem files do not decode (a write that was cut short, a
\* damaged disk block)
MaxUnreadable == 2

InitCorrupt ==
    /\ Loaded
    /\ cacheDirs = CandidateDirs
    /\ cacheFiles = CandidateFiles
    /\ unreadable \in {U \in SUBSET CandidateFiles : Cardinality(U) <= MaxUnreadable}
    /\ disk = <<>>
    /\ digests = {}
    /\ statusReq = NoStatusReq
    /\ dirOld = {}
    /\ fileOld = {}
    /\ waveform = NoWave
    /\ stereo = NoWave

\* one job of a streaming path over a cache tree with unreadable stems
SpecCorrupt == InitCorrupt /\ [][NextCache]_vars

FairSpecStream ==
    /\ SpecStream
    /\ \A j \in One : SF_vars(StreamStep(j)) /\ SF_vars(ConsumerStep(j))

\* the client goes away: the server closes the generator of
\* generate_sse_stream where it is suspended, at a yield (or before its
\* first step); the generator has no finally clause and nothing else
\* refers to the ProgressStreamer's consumer side
C_Disconnect(j) ==
    /\ cpc[j] \in {"check", "drain"}
    /\ cpc' = [cpc EXCEPT ![j] = "closed"]
    /\ UNCHANGED <<regVars, callVars, ppc, fsVars, loop, pc, req, res, idx, streamVars,
                   emitted, lastYield, response, outdir, prior, deviceCache, unreadable, auxVars>>

\* one job of a streaming path whose client may disconnect at any point
NextDisconnect ==
    \/ NextStream
    \/ \E j \in One : C_Disconnect(j)

SpecDisconnect == InitLoaded /\ [][NextDisconnect]_vars

\* the job and the generator are scheduled as in FairSpecStream; whether
\* and when the client disconnects is up to the client
FairSpecDisconnect ==
    /\ SpecDisconnect
    /\ \A j \in One : SF_vars(StreamStep(j)) /\ SF_vars(ConsumerStep(j))

(***************************************************************************)
(* compute_file_hash and the cache path it addresses                       *)
(***************************************************************************)
\* the byte values and the file contents considered
Bytes == {0, 1}

MaxBytes == 2

Contents == UNION {[1..n -> Bytes] : n \in 0..MaxBytes}

\* chunk_size: int = 8192
DefaultChunkSize == 8192

ChunkSizes == {1, 2, DefaultChunkSize}

\* the paths of two saved inputs: UPLOAD_DIR/<session_id>_<file name>
HashPaths == {<<sid>> \o fn : sid \in Sids, fn \in Fnames}

\* iter(lambda: f.read(chunk_size), b""): the chunks read up to the empty one
RECURSIVE ReadChunks(_, _)
ReadChunks(bytes, size) ==
    IF bytes = <<>> THEN <<>>
    ELSE LET n == IF size < Len(bytes) THEN size ELSE Len(bytes)
         IN <<SubSeq(bytes, 1, n)>> \o ReadChunks(SubSeq(bytes, n + 1, Len(bytes)), size)

\* hashlib.sha256(): a stand-in that keeps what a streaming hash does, one
\* compression step per byte on a running state, with a state of
\* HashModulus values in place of 2^256
HashModulus == 65536

Sha256Init == 1

RECURSIVE Sha256Update(_, _)
Sha256Update(st, chunk) ==
    IF chunk = <<>> THEN st
    ELSE Sha256Update((st * 31 + Head(chunk) + 1) % HashModulus, Tail(chunk))

\* for chunk in ...: sha256_hash.update(chunk)
RECURSIVE HashChunks(_, _)
HashChunks(st, chunks) ==
    IF chunks = <<>> THEN st
    ELSE HashChunks(Sha256Update(st, Head(chunks)), Tail(chunks))

\* hexdigest(): 64 hexadecimal digits, here digits 0..15 derived from the state
Sha256HexLen == 64

HexDigest(st) ==
    [k \in 1..Sha256HexLen |-> ((st \div (16 ^ ((k - 1) % 4))) + ((k - 1) \div 4)) % 16]

\* sha256_hash.hexdigest()[:16]
HashPrefixLen == 16

\* a hash of the first chunk only
compute_file_hash_FirstChunk(file_path, chunk_size) ==
    LET chunks == ReadChunks(disk[file_path], chunk_size)
        first == IF chunks = <<>> THEN <<>> ELSE <<Head(chunks)>>
    IN SubSeq(HexDigest(HashChunks(Sha256Init, first)), 1, HashPrefixLen)

compute_file_hash(file_path, chunk_size) ==
    SubSeq(HexDigest(HashChunks(Sha256Init, ReadChunks(disk[file_path], chunk_size))),
           1, HashPrefixLen)

\* SplitterEngine.get_cache_path, below output_base_dir
get_cache_path(audio_path, mode) ==
    <<compute_file_hash(audio_path, DefaultChunkSize), mode>>

\* the calls recorded
MaxCalls == 2

\* a call of compute_file_hash on a path with a chunk size, and the cache
\* paths of that file
H_Compute(p, c) ==
    /\ Cardinality(digests) < MaxCalls
    /\ digests' = digests \cup
          {[path |-> p, bytes |-> disk[p], chunk |-> c,
            digest |-> compute_file_hash(p, c),
            cache |-> [m \in Modes |-> get_cache_path(p, m)]]}
    /\ UNCHANGED <<regVars, callVars, ppc, fsVars, loop, pc, req, res, idx, streamVars,
                   consumerVars, response, outdir, prior, deviceCache, unreadable, disk,
                   statusReq, ageVars, dspVars>>

\* two saved inputs of any contents, hashed with any chunk size
InitHash ==
    /\ Loaded
    /\ cacheDirs = {}
    /\ cacheFiles = {}
    /\ unreadable = {}
    /\ disk \in [HashPaths -> Contents]
    /\ digests = {}
    /\ statusReq = NoStatusReq
    /\ dirOld = {}
    /\ fileOld = {}
    /\ waveform = NoWave
    /\ stereo = NoWave

NextHash == \E p \in HashPaths, c \in ChunkSizes : H_Compute(p, c)

SpecHash == InitHash /\ [][NextHash]_vars

(***************************************************************************)
(* The status endpoints: /health, /api/status, /api/model-status           *)
(***************************************************************************)
StatusOps == {"health", "status", "model-status"}

\* a GET request to a status endpoint reaches the server
St_Arrive(op) ==
    /\ statusReq.state = "none"
    /\ statusReq' = [NoStatusReq EXCEPT !.state = "waiting", !.op = op]
    /\ UNCHANGED <<regVars, callVars, ppc, fsVars, loop, pc, req, res, idx, streamVars,
                   consumerVars, response, outdir, prior, deviceCache, unreadable, disk,
                   digests, ageVars, dspVars>>

\* the event loop runs the handler, a coroutine without an await:
\* _model_ready[mode].is_set() for each mode and, but for /health,
\* _splitter_engines.get(mode)
St_Answer ==
    /\ statusReq.state = "waiting"
    /\ loop = "free"
    /\ statusReq' = [state |-> "answered", op |-> statusReq.op,
                     ready |-> model_ready,
                     loaded |-> [m \in Modes |-> statusReq.op # "health" /\ Present(m)]]
    /\ UNCHANGED <<regVars, callVars, ppc, fsVars, loop, pc, req, res, idx, streamVars,
                   consumerVars, response, outdir, prior, deviceCache, unreadable, disk,
                   digests, ageVars, dspVars>>

\* the server from boot with a client polling a status endpoint
NextStatus ==
    \/ Next
    \/ \E op \in StatusOps : St_Arrive(op)
    \/ St_Answer

SpecStatus == Init /\ [][NextStatus]_vars

(***************************************************************************)
(* cleanup_old_outputs: the reaper thread                                  *)
(***************************************************************************)
\* OUTPUT_DIR.iterdir(): the content-hash directories
HashDirs == {d[1] : d \in cacheDirs}

\* max_age_hours go by with nothing written: every directory and file that
\* exists is now older than that
R_TimePasses ==
    /\ dirOld # HashDirs \/ fileOld # cacheFiles
    /\ dirOld' = HashDirs
    /\ fileOld' = cacheFiles
    /\ UNCHANGED <<regVars, callVars, ppc, fsVars, loop, pc, req, res, idx, streamVars,
                   consumerVars, response, outdir, prior, deviceCache, unreadable, disk,
                   digests, statusReq, dspVars>>

\* one turn of the for loop: age_hours of session_dir.stat().st_mtime is
\* above max_age_hours, shutil.rmtree(session_dir, ignore_errors=True)
R_Reap(h) ==
    /\ h \in HashDirs
    /\ h \in dirOld
    /\ cacheDirs' = {d \in cacheDirs : d[1] # h}
    /\ cacheFiles' = {f \in cacheFiles : f.hash # h}
    /\ unreadable' = {f \in unreadable : f.hash # h}
    /\ dirOld' = dirOld \ {h}
    /\ fileOld' = {f \in fileOld : f.hash # h}
    /\ UNCHANGED <<regVars, callVars, ppc, uploads, loop, pc, req, res, idx, streamVars,
                   consumerVars, response, outdir, prior, deviceCache, disk, digests,
                   statusReq, dspVars>>

\* OUTPUT_DIR as earlier jobs left it: under CacheHash any of the mode
\* directories, each with all of its stem files (a finished job) or with
\* none (a job that failed after mkdir)
InitReaper ==
    /\ Loaded
    /\ cacheDirs \in SUBSET CandidateDirs
    /\ cacheFiles \in SUBSET CandidateFiles
    /\ \A d \in CandidateDirs :
          \/ {f \in cacheFiles : f.mode = d[2]} = {}
          \/ d \in cacheDirs /\ {f \in CandidateFiles : f.mode = d[2]} \subseteq cacheFiles
    /\ unreadable = {}
    /\ disk = <<>>
    /\ digests = {}
    /\ statusReq = NoStatusReq
    /\ dirOld = {}
    /\ fileOld = {}
    /\ waveform = NoWave
    /\ stereo = NoWave

\* one job of a streaming path while time passes and the reaper runs
NextReaper ==
    \/ \E j \in One, m \in Modes, sid \in Sids, fn \in Fnames, h \in Hashes :
          A_Upload(j, m, sid, fn, h)
    \/ \E j \in One, m \in Modes, v \in Videos : A_Youtube(j, m, v)
    \/ \E j \in One : StreamStep(j)
    \/ R_TimePasses
    \/ \E h \in Hashes : R_Reap(h)

SpecReaper == InitReaper /\ [][NextReaper]_vars

(***************************************************************************)
(* SplitterEngine._enforce_stereo                                          *)
(***************************************************************************)
Samples == {0, 1}

MaxSamples == 2

MaxChannels == 3

\* what librosa.load(mono=False) returns: a 1-D array for a mono file, an
\* array of shape (channels, n) otherwise; data holds the samples, or the
\* rows
Waveforms ==
    {[ndim |-> 1, data |-> d] : d \in UNION {[1..n -> Samples] : n \in 1..MaxSamples}}
    \cup
    {[ndim |-> 2, data |-> d] :
        d \in UNION {[1..c -> [1..n -> Samples]] : c \in 1..MaxChannels, n \in 1..MaxSamples}}

\* without the branch for more than two channels
_enforce_stereo_NoTruncate(w) ==
    IF w.ndim = 1 THEN [ndim |-> 2, data |-> <<w.data, w.data>>]
    ELSE IF Len(w.data) = 1 THEN [ndim |-> 2, data |-> <<w.data[1], w.data[1]>>]
    ELSE w

\* np.stack([w, w]); np.repeat(w, 2, axis=0); w[:2, :]
_enforce_stereo(w) ==
    IF w.ndim = 1 THEN [ndim |-> 2, data |-> <<w.data, w.data>>]
    ELSE IF Len(w.data) = 1 THEN [ndim |-> 2, data |-> <<w.data[1], w.data[1]>>]
    ELSE IF Len(w.data) > 2 THEN [ndim |-> 2, data |-> SubSeq(w.data, 1, 2)]
    ELSE w

\* waveform = self._enforce_stereo(waveform)
E_EnforceStereo ==
    /\ stereo = NoWave
    /\ stereo' = _enforce_stereo(waveform)
    /\ UNCHANGED <<regVars, callVars, ppc, fsVars, loop, pc, req, res, idx, streamVars,
                   consumerVars, response, outdir, prior, deviceCache, unreadable, disk,
                   digests, statusReq, ageVars, waveform>>

\* any loaded array
InitStereo ==
    /\ Loaded
    /\ cacheDirs = {}
    /\ cacheFiles = {}
    /\ unreadable = {}
    /\ disk = <<>>
    /\ digests = {}
    /\ statusReq = NoStatusReq
    /\ dirOld = {}
    /\ fileOld = {}
    /\ waveform \in Waveforms
    /\ stereo = NoWave

NextStereo == E_EnforceStereo

SpecStereo == InitStereo /\ [][NextStereo]_vars

(***************************************************************************)
(* A cache entry written for an input whose file name is a stem name       *)
(***************************************************************************)
\* session s1, file drums.wav: audio_path.stem is "s1_drums"
StemNamedBase == <<"s1", "drums">>

\* OUTPUT_DIR after a job for that input has finished in each mode
InitGlob ==
    /\ Loaded
    /\ cacheDirs = CandidateDirs
    /\ cacheFiles =
          UNION {{[hash |-> CacheHash, mode |-> m,
                   name |-> StemFileName(StemNamedBase, MODEL_STEMS(ModelName(m))[i],
                                         ModelName(m))] :
                     i \in 1..Len(MODEL_STEMS(ModelName(m)))} : m \in Modes}
    /\ unreadable = {}
    /\ disk = <<>>
    /\ digests = {}
    /\ statusReq = NoStatusReq
    /\ dirOld = {}
    /\ fileOld = {}
    /\ waveform = NoWave
    /\ stereo = NoWave

\* one job of a streaming path over that cache entry
SpecGlob == InitGlob /\ [][NextCache]_vars

(***************************************************************************)
(* get_splitter_engine when an exception leaves the with block             *)
(***************************************************************************)
\* the body of `with _engine_locks[mode]:` raises before the engine is
\* stored: an exception that _initialize_model's `except Exception` does not
\* catch, or one raised by the statements around the constructor call
G_ConstructRaises(c) ==
    /\ gpc[c] = "construct"
    /\ gpc' = [gpc EXCEPT ![c] = "raising"]
    /\ UNCHANGED <<regVars, gmode, gnew, gret, ppc, jobVars>>

\* an unwinding that leaves the lock with the thread that failed
G_Unwind_KeepsLock(c) ==
    /\ gpc[c] = "raising"
    /\ gpc' = [gpc EXCEPT ![c] = "failed"]
    /\ UNCHANGED <<regVars, gmode, gnew, gret, ppc, jobVars>>

\* the with statement's __exit__ releases the lock and the exception goes on
\* to the caller of get_splitter_engine
G_Unwind(c) ==
    /\ gpc[c] = "raising"
    /\ locks' = [locks EXCEPT ![gmode[c]] = "free"]
    /\ gpc' = [gpc EXCEPT ![c] = "failed"]
    /\ UNCHANGED <<engines, model_ready, constructed, gmode, gnew, gret, ppc, jobVars>>

\* a thread whose call failed calls again
T_CallAgain(c, m) ==
    /\ gpc[c] = "failed"
    /\ Enter(c, m)
    /\ UNCHANGED <<regVars, ppc, jobVars>>

\* preload_models: the exception ends the thread, logged by its except clause
\* or not; the remaining mode is not loaded by it
P_Failed ==
    /\ ppc \in {"detailed", "fast"}
    /\ gpc[Preload] = "failed"
    /\ gpc' = [gpc EXCEPT ![Preload] = "idle"]
    /\ ppc' = "done"
    /\ UNCHANGED <<regVars, gmode, gnew, gret, jobVars>>

NextRaise ==
    \/ NextRegistry
    \/ \E c \in RegistryCallers : G_ConstructRaises(c)
    \/ \E c \in RegistryCallers : G_Unwind(c)
    \/ \E c \in TestCallers, m \in Modes : T_CallAgain(c, m)
    \/ P_Failed

SpecRaise == Init /\ [][NextRaise]_vars

\* the steps of one call of get_splitter_engine after the lock is taken or
\* where no lock is needed
GetStep(c) ==
    \/ G_Check1(c)
    \/ G_Check2(c)
    \/ G_Construct(c)
    \/ G_ConstructRaises(c)
    \/ G_Unwind(c)
    \/ G_Publish(c)
    \/ G_SetReady(c)
    \/ G_Release(c)
    \/ G_Return(c)

\* every thread keeps running; a thread waiting on threading.Lock is woken
\* when the lock is released and gets it after finitely many releases
FairSpecRaise ==
    /\ SpecRaise
    /\ \A c \in RegistryCallers : WF_vars(GetStep(c))
    /\ \A c \in RegistryCallers : SF_vars(G_Acquire(c))

(***************************************************************************)
(* C1: for each mode the SplitterEngine constructor runs at most once,     *)
(* whatever the interleaving of get_splitter_engine calls (the preload     *)
(* thread included); at most one caller is inside the locked section, no   *)
(* caller has returned for a mode whose construction is still in progress, *)
(* and every caller that returns holds the one published instance.         *)
(***************************************************************************)
InLocked(c) == gpc[c] \in {"check2", "construct", "publish", "setready", "release"}

Constructing(c) == gpc[c] \in {"construct", "publish"}

Thm_C1_SingleConstruction ==
    /\ \A m \in Modes : constructed[m] <= 1
    /\ \A c \in Callers :
         gpc[c] = "done" =>
            /\ Present(gmode[c])
            /\ gret[c] = engines[gmode[c]]
            /\ gret[c].id = 1
    /\ \A c, d \in Callers :
         (c # d /\ gmode[c] = gmode[d]) =>
            /\ ~(InLocked(c) /\ InLocked(d))
            /\ Constructing(d) => gpc[c] \notin {"ret", "done"}

\* one caller constructed the engine and has returned it; a second caller
\* passed the first check before publication, waited on the lock, and is now
\* inside the locked section without having constructed anything
Wit_C1_BlockedCallerReuses ==
    \E c, d \in Callers :
        /\ c # d
        /\ gmode[c] = gmode[d]
        /\ gpc[c] = "done" /\ gnew[c].id = 1 /\ gret[c] = gnew[c]
        /\ gpc[d] = "release" /\ gnew[d] = NoEngine
        /\ constructed[gmode[c]] = 1

(***************************************************************************)
(* C2: every job of a streaming path pushes exactly one terminal event     *)
(* into its ProgressStreamer, on every path, and pushes nothing after it.  *)
(***************************************************************************)
Terminals(q) == {i \in 1..Len(q) : IsTerminal(q[i])}

Streaming(j) == req[j].kind \in {"upload", "youtube"}

Thm_C2_OneTerminalPushed ==
    \A j \in Jobs :
        /\ Cardinality(Terminals(pushed[j])) <= 1
        /\ \A i \in Terminals(pushed[j]) : i = Len(pushed[j])
        /\ (Streaming(j) /\ pc[j] \in {"setdone", "finished"}) =>
              Cardinality(Terminals(pushed[j])) = 1
        /\ (Streaming(j) /\ pc[j] \notin {"setdone", "finished"}) =>
              Terminals(pushed[j]) = {}

LastPushed(j) == pushed[j][Len(pushed[j])]

\* one job ended through an exception handler and the other with a cache hit,
\* each with its terminal event as the last event pushed
Wit_C2_ErrorAndCachedPaths ==
    \E j, k \in Jobs :
        /\ pc[j] = "finished" /\ pc[k] = "finished"
        /\ Streaming(j) /\ Streaming(k)
        /\ LastPushed(j).type = "error" /\ Len(pushed[j]) > 1
        /\ LastPushed(k).type = "complete" /\ LastPushed(k).data.cache_hit
        /\ Len(pushed[k]) > 1

(***************************************************************************)
(* C3: the stream a consumer emits for a job carries at most one terminal  *)
(* event (complete or error), and no event is emitted after it.            *)
(***************************************************************************)
Thm_C3_OneTerminalEmitted ==
    \A j \in Jobs :
        /\ Cardinality(Terminals(emitted[j])) <= 1
        /\ \A i \in Terminals(emitted[j]) : i = Len(emitted[j])

\* the consumer has ended the stream of a job with at least three events,
\* and the last thing it yielded is the terminal event
Wit_C3_TerminalEmittedLast ==
    \E j \in Jobs :
        /\ cpc[j] = "end"
        /\ Len(emitted[j]) >= 3
        /\ IsTerminal(emitted[j][Len(emitted[j])])
        /\ lastYield[j] = "event"

(***************************************************************************)
(* C4: no admitted streaming job hangs.  Whatever its processing does      *)
(* (cached result, success, failed result, MemoryError, any other          *)
(* exception), a terminal event is eventually pushed and the consumer      *)
(* eventually ends the stream.                                             *)
(***************************************************************************)
Thm_C4_EveryJobTerminates ==
    \A j \in One :
        (pc[j] # "idle") ~> (/\ Terminals(pushed[j]) # {}
                             /\ Terminals(emitted[j]) # {}
                             /\ cpc[j] = "end")

\* a job whose inference raised MemoryError: the handler pushed the error
\* and the consumer delivered it and ended the stream
Wit_C4_StreamEndsAfterException ==
    \E j \in One :
        /\ pc[j] = "finished"
        /\ cpc[j] = "end"
        /\ LastPushed(j).type = "error"
        /\ LastPushed(j).data.error \in {"oom_api", "oom_engine"}
        /\ emitted[j] = pushed[j]

(***************************************************************************)
(* C5: the events the consumer emits for a job are exactly the events      *)
(* pushed into that job's ProgressStreamer, in push order: none dropped,   *)
(* none duplicated, none reordered.                                        *)
(***************************************************************************)
IsPrefix(s, t) == Len(s) <= Len(t) /\ \A i \in 1..Len(s) : s[i] = t[i]

Thm_C5_EmittedIsPushed ==
    \A j \in Jobs :
        /\ IsPrefix(emitted[j], pushed[j])
        /\ emitted[j] \o queue[j] = pushed[j]
        /\ cpc[j] = "end" => (pc[j] = "finished" /\ emitted[j] = pushed[j])

\* a finished stream of a full split, from the first progress event to the
\* complete event
Wit_C5_FullStreamDelivered ==
    \E j \in Jobs :
        /\ cpc[j] = "end"
        /\ Len(pushed[j]) >= 10
        /\ emitted[j] = pushed[j]
        /\ LastPushed(j).type = "complete"

(***************************************************************************)
(* C6: check_cache returns a miss whenever baseDir/hash/mode lacks a file  *)
(* for at least one stem of the mode's profile; it returns a hit only if   *)
(* every declared stem has a matching file, and a hit always holds the     *)
(* full stem list, never some of the stems.  "A file for a stem" is a file *)
(* that the lookup pattern *_<stem>_*.wav matches.                         *)
(***************************************************************************)
StemSet(names) == {names[i] : i \in 1..Len(names)}

HasStemFile(h, m, st) == \E n \in FilesIn(h, m) : GlobStem(st, n)

LacksAStem(h, m) ==
    \/ <<h, m>> \notin cacheDirs
    \/ \E st \in StemSet(MODEL_STEMS(ModelName(m))) : ~HasStemFile(h, m, st)

FullHit(r, h, m) ==
    /\ r.names = MODEL_STEMS(ModelName(m))
    /\ Len(r.files) = Len(r.names)
    /\ \A i \in 1..Len(r.names) :
          r.files[i] \in FilesIn(h, m) /\ GlobStem(r.names[i], r.files[i])

Thm_C6_MissUnlessAllStems ==
    /\ \A h \in Hashes, m \in Modes :
          /\ LacksAStem(h, m) => CheckCacheHits(ModelName(m), h, m) = {}
          /\ \A r \in CheckCacheHits(ModelName(m), h, m) : FullHit(r, h, m)
    \* what split_audio returned from the lookup (a job that hit wrote nothing)
    /\ \A j \in One : (res[j].success /\ res[j].cache_hit) =>
          /\ ~LacksAStem(res[j].file_hash, req[j].mode)
          /\ FullHit(res[j], res[j].file_hash, req[j].mode)

\* a job looked up a directory that holds some of its mode's stem files but
\* not all of them, and went on as after a miss
Wit_C6_PartialDirectoryMisses ==
    \E j \in One :
        /\ pc[j] \in {"sa_load", "sa_mock"}
        /\ <<req[j].hash, req[j].mode>> \in cacheDirs
        /\ FilesIn(req[j].hash, req[j].mode) # {}
        /\ LacksAStem(req[j].hash, req[j].mode)
        /\ ~res[j].success

(***************************************************************************)
(* C7: every successful result delivered to a client (complete event or    *)
(* 200 response), on every request path, carries a stem-name set equal to  *)
(* the stem list declared for the job's mode.                              *)
(***************************************************************************)
\* the success payload a job has delivered, NoResult if it has delivered none
Delivered(j) ==
    IF Streaming(j) /\ pushed[j] # <<>> /\ LastPushed(j).type = "complete"
    THEN LastPushed(j).data
    ELSE IF req[j].kind = "sync" /\ response[j].status = 200
         THEN response[j].data
         ELSE NoResult

DeclaredStems(m) == MODEL_STEMS(ModelName(m))

Cex_C7_StemSetIsDeclared ==
    \A j \in Jobs : Delivered(j).success =>
        /\ StemSet(Delivered(j).names) = StemSet(DeclaredStems(req[j].mode))
        /\ Len(Delivered(j).names) = Len(DeclaredStems(req[j].mode))

(***************************************************************************)
(* C8: a cache entry becomes observable atomically.  While a job is        *)
(* persisting stems for (hash, mode), from the creation of the output      *)
(* directory until its last stem file is written, no lookup by another job *)
(* for the same (hash, mode) returns a cache hit, on any request path.     *)
(***************************************************************************)
Persisting(j) == pc[j] \in {"sa_infer", "sa_save"}

\* this step is job k's check_cache returning a hit
CheckCacheHitStep(k) ==
    /\ AtSplitStart(k)
    /\ pc'[k] = "post"
    /\ res'[k].success /\ res'[k].cache_hit

\* this step is job k's probe of the directory taking the cached branch
ProbeHitStep(k) ==
    /\ pc[k] = "engine" /\ req[k].kind = "youtube" /\ gpc[k] = "done"
    /\ pc'[k] = "setdone"

Cex_C8_NoHitWhilePersisting ==
    [][\A j, k \in Jobs :
         (j # k /\ Persisting(j) /\ req[k].mode = req[j].mode) =>
            /\ ~(CheckCacheHitStep(k) /\ res'[k].file_hash = outdir[j])
            /\ ~(ProbeHitStep(k) /\ req[k].hash = outdir[j])]_vars

(***************************************************************************)
(* C9: a job run to successful completion, then a second job with the same *)
(* bytes and mode, yield cache_hit=false for the first and cache_hit=true  *)
(* for the second, with the same stem-name set and the same sample rate.   *)
(***************************************************************************)
Cex_C9_SecondRunHits ==
    \A j, k \in Jobs :
        (/\ j \in prior[k] /\ prior[j] = {}
         /\ req[j].hash = req[k].hash /\ req[j].mode = req[k].mode
         /\ Delivered(j).success /\ Delivered(k).success) =>
            /\ ~Delivered(j).cache_hit
            /\ Delivered(k).cache_hit
            /\ StemSet(Delivered(j).names) = StemSet(Delivered(k).names)
            /\ Delivered(j).sample_rate = Delivered(k).sample_rate

(***************************************************************************)
(* C10: concurrent jobs of the same mode serialize on the shared engine:   *)
(* at most one job per mode is executing apply_model at any time.          *)
(***************************************************************************)
InApplyModel(j) == pc[j] = "sa_infer"

Cex_C10_OneInferencePerMode ==
    \A j, k \in Jobs :
        (j # k /\ InApplyModel(j) /\ InApplyModel(k)) => req[j].mode # req[k].mode

(***************************************************************************)
(* C11: jobs of different modes do not block each other.  A job never      *)
(* waits for a lock, or for work, held by a job or an engine construction  *)
(* of the other mode, on any request path.                                 *)
(***************************************************************************)
\* caller c waits for a lock that caller d holds
WaitsForLock(c, d) == gpc[c] = "acquire" /\ locks[gmode[c]] = d

\* job j is a task that is ready to run and waits for the event loop, which
\* job k occupies
WaitsForLoop(j, k) == pc[j] = "y_start" /\ loop = k

Cex_C11_ModesDoNotBlock ==
    /\ \A c, d \in Callers : WaitsForLock(c, d) => gmode[d] = gmode[c]
    /\ \A j, k \in Jobs : (j # k /\ WaitsForLoop(j, k)) => req[k].mode = req[j].mode

(***************************************************************************)
(* C12: on every request path that saves an uploaded input, once the job   *)
(* has finished (success, failed engine result, MemoryError or any other   *)
(* exception) the temporary input file saved for it no longer exists.      *)
(***************************************************************************)
SavesInput(j) == req[j].kind \in {"upload", "sync"}

\* no other job was given the same path in UPLOAD_DIR
OwnsInput(j) == \A k \in Jobs \ {j} : req[k].base # req[j].base

Cex_C12_InputRemovedWhenFinished ==
    \A j \in Jobs :
        (SavesInput(j) /\ pc[j] = "finished" /\ OwnsInput(j)) =>
            req[j].base \notin DOMAIN uploads

(***************************************************************************)
(* C13: if the model backend cannot be loaded for a mode, get(mode) fails  *)
(* instead of returning a handle, and every later get(mode) fails at once  *)
(* without running construction again.                                     *)
(***************************************************************************)
\* the constructor run for mode m could not load the model (it set mock_mode)
LoadFailed(m) ==
    \/ Present(m) /\ engines[m].mock
    \/ \E c \in Callers : gmode[c] = m /\ gnew[c].id >= 1 /\ gnew[c].mock

\* the call get_splitter_engine(mode) by c has returned a handle
Returned(c) == gpc[c] = "done"

Cex_C13_FailedLoadFailsGet ==
    /\ \A c \in Callers : (Returned(c) /\ LoadFailed(gmode[c])) => gret[c] = NoEngine
    /\ \A m \in Modes : LoadFailed(m) => constructed[m] = 1

(***************************************************************************)
(* C14: if the model backend failed to load for a mode, the mode's         *)
(* readiness is not reported as true and no job in that mode ends with a   *)
(* complete (success) result.                                              *)
(***************************************************************************)
Cex_C14_FailedLoadIsUnavailable ==
    /\ \A m \in Modes : LoadFailed(m) => ~model_ready[m]
    /\ \A j \in Jobs : (req[j].kind # "none" /\ LoadFailed(req[j].mode)) =>
          ~Delivered(j).success

(***************************************************************************)
(* C15: an out-of-memory condition during inference is reported to the     *)
(* client by the dedicated out-of-memory handler with its remediation      *)
(* message, on every request path; it is never reported through the        *)
(* generic processing-failure path.                                        *)
(***************************************************************************)
\* the failure message the client of job j is given
ReportedError(j) ==
    IF req[j].kind = "sync" THEN response[j].data.error
    ELSE IF pushed[j] # <<>> /\ LastPushed(j).type = "error"
         THEN LastPushed(j).data.error
         ELSE ""

\* this step is the orchestrator of job j handling the MemoryError
HandlesMemoryError(j) == pc[j] = "memerr" /\ pc'[j] # "memerr"

Cex_C15_OomHasItsOwnReport ==
    [][\A j \in Jobs : HandlesMemoryError(j) => ReportedError(j)' = "oom_api"]_vars

(***************************************************************************)
(* C16: on every failure exit of split_audio, the generic exception and    *)
(* the out-of-memory exit alike, the device cache has been emptied before  *)
(* the call returns or raises to its caller.                               *)
(***************************************************************************)
\* split_audio has returned a failure dict to, or raised into, the
\* orchestrator of job j, or the orchestrator has gone on from there
AfterFailureExit(j) ==
    \/ pc[j] \in {"memerr", "exc"}
    \/ pc[j] \in {"post", "setdone", "finished"} /\ ~res[j].success

Cex_C16_DeviceReleasedOnFailure ==
    \A j \in Jobs : AfterFailureExit(j) => ~deviceCache[j]

(***************************************************************************)
(* C17: when a job ends in a processing failure after it created its       *)
(* output directory or wrote some stem files, the partial outputs are      *)
(* cleaned up: the cache location baseDir/hash/mode holds no directory or  *)
(* stem file left by that job.                                             *)
(***************************************************************************)
\* job j created baseDir/outdir[j]/mode and then left split_audio by a failure
FailedAfterMkdir(j) == outdir[j] # "" /\ AfterFailureExit(j)

\* no other job has used the same cache location
OwnsOutputDir(j) ==
    \A k \in Jobs \ {j} : ~(outdir[k] = outdir[j] /\ req[k].mode = req[j].mode)

Cex_C17_PartialOutputsCleaned ==
    \A j \in Jobs :
        (FailedAfterMkdir(j) /\ OwnsOutputDir(j)) =>
            /\ <<outdir[j], req[j].mode>> \notin cacheDirs
            /\ FilesIn(outdir[j], req[j].mode) = {}

(***************************************************************************)
(* C18: an unreadable cached stem is never surfaced to the client.  The    *)
(* lookup never raises and never yields an error result: it returns a miss *)
(* and the job continues with a fresh separation, so that no job delivers  *)
(* a cached result holding a stem file that does not decode.               *)
(***************************************************************************)
\* this step is split_audio's lookup for job j, its input being there
LookupStep(j) == AtSplitStart(j) /\ InputExists(j) /\ pc'[j] # pc[j]

\* after this step job j has delivered a cache hit
DeliversCached(j) == Delivered(j)'.success /\ Delivered(j)'.cache_hit

Cex_C18_UnreadableStemNotSurfaced ==
    [][\A j \in One :
         /\ LookupStep(j) =>
               \/ pc'[j] = "post" /\ res'[j].success /\ res'[j].cache_hit
               \/ pc'[j] \in {"sa_load", "sa_mock"}
         /\ DeliversCached(j) =>
               \A i \in 1..Len(Delivered(j)'.files) :
                   [hash |-> Delivered(j)'.file_hash, mode |-> req'[j].mode,
                    name |-> Delivered(j)'.files[i]] \notin unreadable']_vars

(***************************************************************************)
(* C19: a request with an invalid mode selector is rejected synchronously, *)
(* before any worker thread or task starts, and leaves the state           *)
(* unchanged: no input file is saved, no ProgressStreamer is created, no   *)
(* engine is constructed and the cache is untouched.                       *)
(***************************************************************************)
\* this step answers a request of slot j with 400
RejectsInvalidMode(j) == response'[j].status = 400 /\ response[j].status # 400

Thm_C19_InvalidModeChangesNothing ==
    [][\A j \in Jobs : RejectsInvalidMode(j) =>
          /\ UNCHANGED <<uploads, cacheDirs, cacheFiles, unreadable, auxVars>>
          /\ UNCHANGED <<engines, constructed, locks, model_ready>>
          /\ UNCHANGED <<queue, done, pushed>>
          /\ UNCHANGED <<pc, gpc, cpc, req, loop>>]_vars

\* a request with an invalid mode was rejected, and the server has an engine
\* under construction, a running job and a saved upload that it left alone
Wit_C19_RejectedWhileBusy ==
    /\ \E j \in Jobs : response[j].status = 400 /\ pc[j] = "idle"
    /\ \E k \in Jobs : pc[k] = "sa_save" /\ req[k].base \in DOMAIN uploads
    /\ gpc[Preload] = "construct"

(***************************************************************************)
(* C20: on every request path, content hashing, audio decode/encode and    *)
(* model inference execute on a separate worker thread and never on the    *)
(* event-loop thread.                                                      *)
(***************************************************************************)
\* job j is about to hash and decode its input (librosa.load), is inside
\* apply_model, or is encoding stems (sf.write)
InHeavyWork(j) == pc[j] \in {"sa_load", "sa_infer", "sa_save"}

\* the code of job j is what the event-loop thread is executing
OnEventLoop(j) == loop = j

Cex_C20_HeavyWorkOffTheLoop ==
    \A j \in Jobs : InHeavyWork(j) => ~OnEventLoop(j)


(***************************************************************************)
(* C21: repeated work is deduplicated across overlapping requests.  When   *)
(* two jobs with the same content and mode overlap (the second starts      *)
(* before the first has finished persisting), model inference for that     *)
(* (content hash, mode) runs at most once.                                 *)
(***************************************************************************)
\* the job has called apply_model for its (hash, mode) and has not yet
\* written its last stem file
RanInference(j) == pc[j] \in {"sa_infer", "sa_save"}

Cex_C21_OverlappingJobsInferOnce ==
    \A a \in Jobs : \A b \in Jobs \ {a} :
        RanInference(a) /\ RanInference(b)
            => <<outdir[a], req[a].mode>> # <<outdir[b], req[b].mode>>


(***************************************************************************)
(* C22: if the consumer of a job's event stream stops at any point (the    *)
(* client disconnects), the worker is neither halted nor blocked: it still *)
(* runs to completion or failure, and on success its stems are in the      *)
(* cache, so that a later request with the same content and mode is a      *)
(* cache hit.                                                              *)
(***************************************************************************)
Disconnected(j) == cpc[j] = "closed"

\* the job pushed a complete event
Succeeded(j) == \E i \in Terminals(pushed[j]) : pushed[j][i].type = "complete"

\* a request with the bytes and the mode of job j, made now, is answered
\* from the cache: check_cache returns a hit and cannot return a miss
LaterRequestHits(j) ==
    LET h == req[j].hash
        m == req[j].mode
    IN /\ CheckCacheHits(ModelName(m), h, m) # {}
       /\ ~CheckCacheMisses(ModelName(m), h, m)

PushedError(j) == \E i \in Terminals(pushed[j]) : pushed[j][i].type = "error"

\* the job is past the point where its failure arose
OnFailurePath(j) ==
    \/ pc[j] \in {"memerr", "exc"}
    \/ pc[j] = "post" /\ ~res[j].success
    \/ pc[j] \in {"setdone", "finished"} /\ (PushedError(j) \/ response[j].status = 500)

HasFailed(j) == pc[j] = "finished" /\ OnFailurePath(j)

\* job b was admitted after job a had finished, for the same mode, and its
\* get_splitter_engine call has returned
GotEngineAfter(a, b) ==
    /\ a # b
    /\ a \in prior[b]
    /\ req[a].mode = req[b].mode
    /\ gpc[b] = "done"

Thm_C23_FailureLeavesEngineIntact ==
    [][/\ \A j \in Jobs :
            pc'[j] # pc[j] /\ OnFailurePath(j)'
                => UNCHANGED <<engines, locks, model_ready>>
       /\ \A a \in Jobs : \A b \in Jobs :
            (HasFailed(a) /\ GotEngineAfter(a, b))'
                => /\ gret'[b] = engines'[req'[b].mode]
                   /\ gret'[a] # NoEngine => gret'[b] = gret'[a]]_vars

\* a job whose inference failed, and a later job of the same mode holding
\* the engine the failed job had used
Wit_C23_SameEngineAfterFailure ==
    \E a \in Jobs : \E b \in Jobs :
        /\ HasFailed(a)
        /\ GotEngineAfter(a, b)
        /\ res[a].error = "generic"
        /\ gret[a] # NoEngine
        /\ gret[b] = gret[a]


(***************************************************************************)
(* C24: compute_file_hash is a deterministic function of the file's byte   *)
(* content alone: two files with identical bytes get the same 16-hex-      *)
(* character value regardless of path, file name or chunk size, so for a   *)
(* given mode they address the same cache entry.                           *)
(***************************************************************************)
HexDigits == 0..15

Thm_C24_HashOfBytesAlone ==
    \A r1 \in digests : \A r2 \in digests :
        /\ Len(r1.digest) = HashPrefixLen
        /\ \A i \in 1..Len(r1.digest) : r1.digest[i] \in HexDigits
        /\ r1.bytes = r2.bytes
              => /\ r1.digest = r2.digest
                 /\ \A m \in Modes : r1.cache[m] = r2.cache[m]

\* the same two bytes under two paths, read in chunks of one byte and as a
\* whole, with one digest
Wit_C24_SameBytesTwoPaths ==
    \E r1 \in digests : \E r2 \in digests :
        /\ r1.path # r2.path
        /\ r1.chunk = 1
        /\ r2.chunk = DefaultChunkSize
        /\ Len(r1.bytes) = MaxBytes
        /\ r1.bytes = r2.bytes
        /\ r1.digest = r2.digest


(***************************************************************************)
(* C25: each job follows the order Queued, CacheCheck, then either         *)
(* CacheHit, Complete or CacheMiss, EngineAcquire, Separating, Persisting, *)
(* Complete.  The result cache is consulted before any engine is acquired  *)
(* and the engine registry is invoked only on a cache miss, so a job that  *)
(* ends in a cache hit never acquires an engine.                           *)
(***************************************************************************)
\* the job's result, as delivered or about to be, is a cache hit
EndsInCacheHit(j) ==
    \/ res[j].success /\ res[j].cache_hit
    \/ \E i \in Terminals(pushed[j]) :
          pushed[j][i].type = "complete" /\ pushed[j][i].data.cache_hit

\* get_splitter_engine has returned an engine to the job
AcquiredEngine(j) == gret[j] # NoEngine

Cex_C25_CacheHitAcquiresNoEngine ==
    \A j \in Jobs : EndsInCacheHit(j) => ~AcquiredEngine(j)


(***************************************************************************)
(* C26: the status operations (health, status, model-status) read each     *)
(* mode's readiness without acquiring any engine lock, so they return      *)
(* without waiting even while that mode's engine is under construction.    *)
(***************************************************************************)
StatusPending == statusReq.state = "waiting"

\* a caller of get_splitter_engine(m) holds the mode's lock
UnderConstruction(m) == \E c \in Callers : gmode[c] = m /\ InLocked(c)

Cex_C26_StatusNeverWaits ==
    \A m \in Modes : StatusPending /\ UnderConstruction(m) => ENABLED St_Answer


(***************************************************************************)
(* C27: generate_sse_stream ends only in a state where the job's terminal  *)
(* event has already been emitted to the client and the queue is empty; in *)
(* particular an event enqueued between the push of the terminal event and *)
(* the consumer's observation of the done flag is emitted before the       *)
(* stream ends.                                                            *)
(***************************************************************************)
StreamEnded(j) == cpc[j] = "end"

TerminalEmitted(j) == Terminals(emitted[j]) # {}

Thm_C27_EndsAfterTerminalAndDrain ==
    [][\A j \in Jobs :
          /\ StreamEnded(j)' /\ ~StreamEnded(j)
                => done[j] /\ TerminalEmitted(j) /\ queue[j] = <<>>
          /\ StreamEnded(j)' => TerminalEmitted(j)' /\ queue'[j] = <<>>]_vars

\* the consumer saw the done flag while the terminal event was still in the
\* queue, and the drain loop emitted it before the stream ended
Wit_C27_TerminalEmittedByDrain ==
    \E j \in Jobs :
        /\ StreamEnded(j)
        /\ lastYield[j] = "drained"
        /\ IsTerminal(emitted[j][Len(emitted[j])])


(***************************************************************************)
(* C28: the consumer emits a keepalive only when the job's queue is empty  *)
(* and the job is not yet done: in no interleaving is a keepalive emitted  *)
(* to the client after that job's terminal event has been forwarded.       *)
(***************************************************************************)
Cex_C28_NoKeepaliveAfterTerminal ==
    \A j \in Jobs : lastYield[j] = "keepalive" => Terminals(emitted[j]) = {}


(***************************************************************************)
(* C29: in every reachable state, if the cache directory baseDir/hash/mode *)
(* exists then it contains a file for every stem of the mode's profile:    *)
(* the directory is created only after a successful separation and is      *)
(* never observable empty or partially populated, also after a failed job. *)
(***************************************************************************)
Cex_C29_CacheDirectoryIsComplete ==
    \A d \in cacheDirs :
        \A st \in StemSet(MODEL_STEMS(ModelName(d[2]))) : HasStemFile(d[1], d[2], st)


(***************************************************************************)
(* C30: exactly one engine handle exists per mode for the lifetime of the  *)
(* process.  Once get(mode) has returned a handle, the registry entry for  *)
(* that mode is never replaced or removed, and every later get(mode) from  *)
(* any caller returns that same handle.                                    *)
(***************************************************************************)
\* the caller's get_splitter_engine call has returned a handle
HoldsHandle(c) == gpc[c] = "done" /\ gret[c] # NoEngine

Thm_C30_OneHandlePerMode ==
    [][/\ \A m \in Modes :
            Present(m) => Present(m)' /\ engines'[m] = engines[m]
       /\ \A c \in Callers :
            HoldsHandle(c)' => gret'[c] = engines'[gmode'[c]]
       /\ \A c \in Callers : \A d \in Callers :
            (HoldsHandle(c) /\ HoldsHandle(d)' /\ gmode[c] = gmode'[d])
                => gret'[d] = gret[c]]_vars

\* the preload thread and two other callers hold the same handle of a mode,
\* which was constructed once
Wit_C30_ThreeCallersOneHandle ==
    \E m \in Modes :
        /\ constructed[m] = 1
        /\ \A c \in RegistryCallers :
              HoldsHandle(c) /\ gmode[c] = m /\ gret[c] = engines[m]


(***************************************************************************)
(* C31: the reaper removes a cache entry only after that entry has         *)
(* exceeded the maximum age (24 hours by default): stem files written less *)
(* than the maximum age ago are never removed by the reaper, also when     *)
(* they were written into a content-hash directory that already existed.   *)
(***************************************************************************)
Cex_C31_ReaperSparesFreshFiles ==
    [][\A f \in cacheFiles : f \notin cacheFiles' => f \in fileOld]_vars


(***************************************************************************)
(* C32: within one job the percent values of successive progress events    *)
(* are non-decreasing and lie in 0..100, on every path: cache hit, real    *)
(* separation with the 4-stem and the 6-stem profile, mock separation, and *)
(* the external-download flow with its own initial progress event.         *)
(***************************************************************************)
IsProgress(e) == e.type = "progress"

\* the percent values of the job's progress events, in the order pushed
Percents(j) ==
    LET ps == SelectSeq(pushed[j], IsProgress)
    IN [i \in 1..Len(ps) |-> ps[i].percent]

Thm_C32_PercentNeverDecreases ==
    \A j \in Jobs :
        /\ \A i \in 1..Len(Percents(j)) : Percents(j)[i] \in 0..100
        /\ \A i \in 1..(Len(Percents(j)) - 1) : Percents(j)[i] <= Percents(j)[i + 1]

\* the external-download flow through a full separation with the 6-stem
\* profile: its own first event, then split_audio's from 2 to 100
Wit_C32_DownloadFlowSixStems ==
    \E j \in Jobs :
        /\ req[j].kind = "youtube"
        /\ req[j].mode = "detailed"
        /\ pc[j] = "finished"
        /\ Succeeded(j)
        /\ ~gret[j].mock
        /\ Len(Percents(j)) = 17
        /\ Percents(j)[1] = Percents(j)[2]
        /\ Percents(j)[17] = 100


(***************************************************************************)
(* C33: _enforce_stereo always returns exactly two channels: a one-channel *)
(* input (1-D or shape (1, n)) yields two identical channels equal to the  *)
(* input, a two-channel input is returned unchanged, and an input with     *)
(* more than two channels is reduced to its first two channels.            *)
(***************************************************************************)
\* the channels of an array, a 1-D array being its one channel
Channels(w) == IF w.ndim = 1 THEN <<w.data>> ELSE w.data

Thm_C33_AlwaysTwoChannels ==
    stereo # NoWave =>
        /\ stereo.ndim = 2
        /\ Len(stereo.data) = 2
        /\ Len(Channels(waveform)) = 1
              => stereo.data[1] = Channels(waveform)[1] /\ stereo.data[2] = stereo.data[1]
        /\ Len(Channels(waveform)) = 2 => stereo = waveform
        /\ Len(Channels(waveform)) > 2
              => stereo.data = SubSeq(Channels(waveform), 1, 2)

\* three different channels reduced to the first two
Wit_C33_ThreeChannelsCut ==
    /\ stereo # NoWave
    /\ Len(Channels(waveform)) = MaxChannels
    /\ waveform.data[1] # waveform.data[2]
    /\ waveform.data[3] # waveform.data[2]
    /\ stereo.data = <<waveform.data[1], waveform.data[2]>>


(***************************************************************************)
(* C34: in every reachable state each cache entry directory (hash, mode)   *)
(* holds exactly one file per stem name, also after two jobs with the same *)
(* content and mode but different job identifiers or input file names have *)
(* each persisted their stems.                                             *)
(***************************************************************************)
\* the files of the directory that were written as stem st of the model
WrittenAs(h, m, st) ==
    {n \in FilesIn(h, m) :
        \E sid \in Sids, fn \in Fnames : n = StemFileName(<<sid>> \o fn, st, ModelName(m))}

\* the part that an empty directory does not already break: no stem has two
Cex_C34_OneFilePerStem ==
    \A d \in cacheDirs :
        \A st \in StemSet(MODEL_STEMS(ModelName(d[2]))) :
            Cardinality(WrittenAs(d[1], d[2], st)) <= 1


(***************************************************************************)
(* C35: for the same input and mode, the mock variant of separation        *)
(* reports the same sequence of progress milestones (percent values in the *)
(* same order) as the real path and returns a result with the same fields  *)
(* and the same stem-name set.                                             *)
(***************************************************************************)
\* the percent values of a separation on the real path, from split_audio's
\* first report to its last
RealMilestones(model) ==
    <<2, 3, 5, 10, 15, 20, 25, 30, 70>>
    \o [i \in 1..Len(ModelSources(model)) |-> StemPercent(i, Len(ModelSources(model)))]
    \o <<100>>

\* an upload job that ran a separation, real or mock, to its success
SeparatedUpload(j) ==
    /\ req[j].kind = "upload"
    /\ pc[j] \in {"post", "setdone", "finished"}
    /\ res[j].success
    /\ ~res[j].cache_hit

Cex_C35_MockReportsAsReal ==
    \A j \in Jobs :
        SeparatedUpload(j) =>
            /\ Percents(j) = RealMilestones(EngineModel(j))
            /\ StemSet(res[j].names) = StemSet(ModelSources(EngineModel(j)))


(***************************************************************************)
(* C36: in every reachable state, a mode's readiness flag being set        *)
(* implies that an engine for that mode is published in the registry;      *)
(* consequently a job admitted after the readiness check never constructs  *)
(* an engine and never waits on the construction lock.                     *)
(***************************************************************************)
\* the caller is past the first check of get_splitter_engine, on the side
\* of the lock
OnLockedSide(c) == gpc[c] = "acquire" \/ InLocked(c)

Thm_C36_ReadyMeansPublished ==
    /\ \A m \in Modes : model_ready[m] => Present(m)
    /\ \A j \in Jobs : ~OnLockedSide(j)

\* a job admitted to a ready mode got its engine while the preload thread
\* was constructing the other one
Wit_C36_AdmittedDuringPreload ==
    \E j \in One :
        /\ gpc[j] = "done"
        /\ gret[j] = engines[req[j].mode]
        /\ gpc[Preload] = "publish"
        /\ gmode[Preload] # req[j].mode
        /\ ~model_ready[gmode[Preload]]


(***************************************************************************)
(* C37: the temporary input file of an in-flight job is private to that    *)
(* job: from the moment it is saved until the job's terminal event, no     *)
(* other request overwrites or deletes it, also when two concurrent        *)
(* requests carry the same client-supplied job identifier and file name.   *)
(***************************************************************************)
\* the job saved an input file and has not produced its terminal event or
\* response yet
InFlightWithInput(j) ==
    /\ req[j].kind \in {"upload", "sync"}
    /\ pc[j] \notin {"idle", "setdone", "finished"}

\* the job's input file is there before and after the step, with its bytes
InputUntouched(j) ==
    /\ req[j].base \in DOMAIN uploads'
    /\ uploads'[req[j].base] = uploads[req[j].base]

Cex_C37_InputFileIsPrivate ==
    [][\A j \in Jobs :
          (InFlightWithInput(j) /\ req[j].base \in DOMAIN uploads /\ pc'[j] = pc[j])
              => InputUntouched(j)]_vars


(***************************************************************************)
(* C38: on a cache hit, the file reported for each stem name s is a file   *)
(* that was written as stem s: the lookup pattern *_<s>_*.wav never        *)
(* selects another stem's file, also when the input's base name itself     *)
(* contains _<s>_ for some declared stem name s.                           *)
(***************************************************************************)
\* the stem a file was written as: the part before the model name
WrittenStem(name, model) == name[Len(name) - Len(ModelTokens(model))]

Cex_C38_HitReportsTheStemsOwnFile ==
    \A j \in Jobs :
        (res[j].success /\ res[j].cache_hit) =>
            \A i \in 1..Len(res[j].names) :
                WrittenStem(res[j].files[i], EngineModel(j)) = res[j].names[i]


(***************************************************************************)
(* C39: the per-mode construction lock is always released, also when       *)
(* engine construction raises: every get(mode) call eventually returns a   *)
(* handle or fails, and no caller stays blocked on the lock forever after  *)
(* a failed construction.                                                  *)
(***************************************************************************)
InCall(c) == gpc[c] \notin {"idle", "done", "failed"}

Thm_C39_LockAlwaysReleased ==
    /\ \A m \in Modes : (locks[m] # "free") ~> (locks[m] = "free")
    /\ \A c \in RegistryCallers : InCall(c) ~> (gpc[c] \in {"done", "failed"})
    /\ \A c \in RegistryCallers : (gpc[c] = "acquire") ~> (locks[gmode[c]] = c)

\* a construction has failed in a mode, and a caller of the same mode holds
\* the lock after it
Wit_C39_LockTakenAfterFailure ==
    \E c, d \in RegistryCallers :
        /\ c # d
        /\ gmode[c] = gmode[d]
        /\ gpc[c] = "failed"
        /\ gpc[d] = "check2"
        /\ locks[gmode[d]] = d
        /\ ~Present(gmode[d])


(***************************************************************************)
(* C40: at the moment a complete event (or non-streaming success response) *)
(* is produced, every stem retrieval URL in it,                            *)
(* /outputs/<hash>/<mode>/<file>, names a file that exists under the cache *)
(* root at baseDir/<hash>/<mode>/ - including results produced by the mock *)
(* fallback and results produced while the reaper runs.                    *)
(***************************************************************************)
\* the files the stem URLs of a success payload name: file_hash and file
\* names from the result, mode from the request
UrlTargets(j, d) ==
    {[hash |-> d.file_hash, mode |-> req[j].mode, name |-> d.files[i]] :
        i \in 1..Len(d.files)}

\* this step produces a complete event or a 200 response for job j
ProducesSuccess(j) ==
    \/ /\ Len(pushed'[j]) > Len(pushed[j])
       /\ pushed'[j][Len(pushed'[j])].type = "complete"
    \/ /\ response'[j].status = 200
       /\ response[j].status # 200

ProducedPayload(j) ==
    IF response'[j].status = 200 /\ response[j].status # 200
    THEN response'[j].data
    ELSE pushed'[j][Len(pushed'[j])].data

Cex_C40_UrlsNameExistingFiles ==
    [][\A j \in Jobs :
          ProducesSuccess(j) => UrlTargets(j, ProducedPayload(j)) \subseteq cacheFiles']_vars

=============================================================================
